---- MODULE Spec2Model ----
(***************************************************************************)
(* Request / caching / rate-limiting / session layer of the storefront.    *)
(*                                                                         *)
(* Each component is modelled from its source file and has its own         *)
(* specification (SpecRL, SpecReq, ...): the components share no state in  *)
(* the code except where a variable below says so.                         *)
(*                                                                         *)
(* Time: Date.now() is the variable `now`, advanced by Tick. Durations of  *)
(* the code (milliseconds) are scaled to a few ticks; the scaling keeps    *)
(* the order of the durations that the code compares.                      *)
(***************************************************************************)
EXTENDS Integers, Sequences, FiniteSets, TLC

\* ------------------------------------------------------------------ bounds
MaxTime == 5
MaxCount == 3
MaxLimit == 2
MaxRetries == 2
MaxInv == 2
MaxFetch == 2
MaxImg == 2
MaxClientRetries == 4
MaxPending == 2
MaxLogs == 2

\* ------------------------------------------------- program constants (scaled)
\* rateLimit({interval}) as built by checkRateLimit: 15 minutes
Interval == 2
\* retention horizon of the periodic sweep: 1 hour
Retention == 4
\* uniqueTokenPerInterval: 500 in the code
Capacity == 2
\* "if (cleaned > 100) break": 100 in the code
CleanLimit == 1

Ids == {"a", "b"}
Limits == 1..MaxLimit

VARIABLES
    now,        \* Date.now()
    attempts,   \* rate-limit.js: the module-level Map, in insertion order
    rlResult,   \* outcome of the last check call
    run,        \* per identifier: history of the calls made since it had no entry
    req,        \* part_001: the serverRequest call in progress (its locals)
    fetchCache, \* part_001: responses kept by fetch under next.revalidate
    jwt,        \* route.js: the token NextAuth keeps server-side (encrypted cookie)
    sread,      \* route.js: the session read in progress and its result
    hook,       \* part_000: useAuth's loading, error, abortControllerRef and closures
    inv,        \* part_000: the invocations of the hook's actions
    apiCache,   \* client.js: OptimizedApiClient.cache, the Map of cachedRequest
    dataCache,  \* client.js: responses kept by fetch under next.revalidate
    fetches,    \* client.js: the cachedRequest calls
    storage,    \* auth.utils.js: the keys window.localStorage holds
    lo,         \* auth.utils.js: the AuthUtils.logout call in progress
    auto,       \* auth.utils.js: the timer and listeners of setupAutoLogout
    img,        \* image-proxy/route.js: the GET request in progress
    imgLog,     \* image-proxy/route.js: the urls fetched upstream so far
    creq,       \* part_001: the clientRequest in progress
    form,       \* api.config.js: SignupForm's state and its pending handlers
    logs,       \* part_003 and part_001: the records written to the console
    seen        \* rate-limit.js: history of the checks made for each identifier

rlVars == <<attempts, rlResult, run>>
reqVars == <<req, fetchCache>>
sessVars == <<jwt, sread>>
authVars == <<hook, inv>>
cacheVars == <<apiCache, dataCache, fetches>>
logoutVars == <<storage, lo>>
autoVars == <<auto>>
imgVars == <<img, imgLog>>

vars ==
    <<now, attempts, rlResult, run, req, fetchCache, jwt, sread, hook, inv,
      apiCache, dataCache, fetches, storage, lo, auto,
      img, imgLog, creq, form, logs, seen>>

\* ------------------------------------------------------------ Map helpers
\* attempts is a sequence of [key, count, lastAttempt, windowStart] in the
\* insertion order a JavaScript Map iterates in.
Keys(m) == {m[i].key : i \in 1..Len(m)}

MapHas(m, k) == k \in Keys(m)

MapGet(m, k) == m[CHOOSE i \in 1..Len(m) : m[i].key = k]

MapDelete(m, k) == SelectSeq(m, LAMBDA e : e.key # k)

\* Map.set keeps the position of an existing key and appends a new one
MapSet(m, k, e) ==
    IF MapHas(m, k)
    THEN [i \in 1..Len(m) |-> IF m[i].key = k THEN e ELSE m[i]]
    ELSE Append(m, e)

\* ------------------------------------------------------------ rate limiter
\* rate-limit.js:26 / :35 / :54  "lastAttempt < windowStart"
IsStaleMutant(e, windowStart) == e.lastAttempt < windowStart - 1
IsStale(e, windowStart) == e.lastAttempt < windowStart

\* rate-limit.js:64  "count > limit"
ExceedsLimitMutant(count, limit) == count >= limit
ExceedsLimit(count, limit) == count > limit

\* rate-limit.js:33-40: walk the Map in order, delete stale entries, stop
\* once more than CleanLimit were deleted.
RECURSIVE CleanupFrom(_, _, _, _)
CleanupFrom(m, i, cleaned, windowStart) ==
    IF i > Len(m) THEN m
    ELSE IF IsStale(m[i], windowStart)
         THEN IF cleaned + 1 > CleanLimit
              THEN MapDelete(m, m[i].key)
              ELSE CleanupFrom(MapDelete(m, m[i].key), i, cleaned + 1, windowStart)
         ELSE CleanupFrom(m, i + 1, cleaned, windowStart)

Cleanup(m, windowStart) == CleanupFrom(m, 1, 0, windowStart)

\* rate-limit.js:31 and :42 "attempts.size >= uniqueTokenPerInterval"
AtCapacityMutant(m) == Len(m) > Capacity
AtCapacity(m) == Len(m) >= Capacity

\* rate-limit.js:43 and :66: the messages of the two errors check throws
CapacityError == <<"Rate limit exceeded: too many unique tokens">>
LimitError(count, limit, resetTime) ==
    <<"Rate limit exceeded: count/limit. Reset at", count, limit, resetTime>>
NoMessage == <<>>

\* rate-limit.js:59-60 "count++; lastAttempt = now", before the limit test
RecordedMutant(entry, t) == [entry EXCEPT !.count = @ + 1]
Recorded(entry, t) == [entry EXCEPT !.count = @ + 1, !.lastAttempt = t]

\* rate-limit.js:20-74, the whole of check(limit, token); it has no await, so
\* it runs to completion in one step. The result is [att, res], with the
\* number of entries the capacity cleanup deleted.
CheckCall(m, limit, token, t) ==
    LET windowStart == t - Interval
        m1 == IF MapHas(m, token) /\ IsStale(MapGet(m, token), windowStart)
              THEN MapDelete(m, token) ELSE m
        m2 == IF AtCapacity(m1) THEN Cleanup(m1, windowStart) ELSE m1
    IN  IF AtCapacity(m2)
        THEN [att |-> m2, evicted |-> Len(m1) - Len(m2),
              res |-> [kind |-> "capacity", error |-> CapacityError,
                       token |-> token, limit |-> limit,
                       count |-> 0, remaining |-> 0, resetTime |-> 0,
                       windowStart |-> 0, at |-> t]]
        ELSE
        LET cur == IF MapHas(m2, token) THEN MapGet(m2, token)
                   ELSE [key |-> token, count |-> 0, lastAttempt |-> t,
                         windowStart |-> t]
            c1 == IF IsStale(cur, windowStart)
                  THEN [cur EXCEPT !.count = 0, !.windowStart = t] ELSE cur
            c2 == Recorded(c1, t)
            m3 == MapSet(m2, token, c2)
        IN  [att |-> m3, evicted |-> Len(m1) - Len(m2),
             res |-> [kind |-> IF ExceedsLimit(c2.count, limit)
                               THEN "limit" ELSE "ok",
                      error |-> IF ExceedsLimit(c2.count, limit)
                                THEN LimitError(c2.count, limit,
                                                c2.windowStart + Interval)
                                ELSE NoMessage,
                      token |-> token, limit |-> limit,
                      count |-> c2.count,
                      remaining |-> limit - c2.count,
                      resetTime |-> c2.windowStart + Interval,
                      windowStart |-> c2.windowStart, at |-> t]]

NoResult ==
    [kind |-> "none", error |-> NoMessage, token |-> "a", limit |-> 1,
     count |-> 0, remaining |-> 0,
     resetTime |-> 0, windowStart |-> 0, at |-> 0,
     had |-> FALSE, staleBefore |-> FALSE, wsBefore |-> 0, countBefore |-> 0,
     below |-> TRUE, freshBefore |-> 0,
     via |-> "check", allowed |-> FALSE, message |-> "", status |-> "none",
     kept |-> TRUE, evicted |-> 0, swept |-> 0, sweepExact |-> TRUE]

\* What the call found before it ran: whether the identifier had an entry,
\* whether that entry's last attempt was more than Interval ago, its
\* windowStart and count, whether the table was below capacity, and how many
\* entries had their last attempt within the last Interval.
Before(m, token, t) ==
    LET had == MapHas(m, token)
    IN  [had |-> had,
         staleBefore |-> had /\ MapGet(m, token).lastAttempt < t - Interval,
         wsBefore |-> IF had THEN MapGet(m, token).windowStart ELSE t,
         countBefore |-> IF had THEN MapGet(m, token).count ELSE 0,
         below |-> Len(m) < Capacity,
         freshBefore |->
             Cardinality({i \in 1..Len(m) : m[i].lastAttempt >= t - Interval})]

Min(x, y) == IF x < y THEN x ELSE y

NoRun == [calls |-> 0, first |-> 0, clean |-> TRUE]

\* History of the calls for one identifier, kept beside the table and never
\* read by CheckCall: the number of check calls since the identifier had no
\* entry (counted up to MaxCount + 1), the time of the first of them, and whether every one of them found
\* the table below capacity.
RunAfter(m, r, token, t) ==
    LET had == MapHas(m, token)
        below == Len(m) < Capacity
    IN  [calls |-> IF had THEN Min(r.calls + 1, MaxCount + 1) ELSE 1,
         first |-> IF had THEN r.first ELSE t,
         clean |-> IF had THEN r.clean /\ below ELSE below]

\* a run ends when its entry leaves the table
RunsAfter(m, m2, r, token, t) ==
    [i \in Ids |-> IF i = token THEN RunAfter(m, r[i], token, t)
                   ELSE IF MapHas(m2, i) THEN r[i] ELSE NoRun]

\* validation.js:148-163 checkRateLimit: what it returns for a check that
\* returned or threw
RetryMessage == "retry after 15 minutes"
CheckRateLimitResultMutant(res) == [allowed |-> TRUE, message |-> ""]
CheckRateLimitResult(res) ==
    IF res.kind = "ok" THEN [allowed |-> TRUE, message |-> ""]
    ELSE [allowed |-> FALSE, message |-> RetryMessage]

\* whether every entry of the table after a call was in the table before
\* it, unchanged (kept for the claims)
Kept(m, m2) == \A i \in 1..Len(m2) : \E j \in 1..Len(m) : m[j] = m2[i]

\* a call of check made directly (via = "check") or by checkRateLimit
CalledBody(limit, token, via) ==
    /\ IF MapHas(attempts, token)
       THEN MapGet(attempts, token).count < MaxCount ELSE TRUE
    /\ LET out == CheckCall(attempts, limit, token, now)
           ret == IF via = "checkRateLimit" THEN CheckRateLimitResult(out.res)
                  ELSE [allowed |-> FALSE, message |-> ""]
       IN  /\ attempts' = out.att
           /\ rlResult' = out.res @@ Before(attempts, token, now)
                              @@ [via |-> via, status |-> "none",
                                  kept |-> Kept(attempts, out.att),
                                  evicted |-> out.evicted, swept |-> 0,
                                  sweepExact |-> TRUE] @@ ret
           /\ run' = RunsAfter(attempts, out.att, run, token, now)

Called(limit, token, via) ==
    /\ CalledBody(limit, token, via)
    /\ UNCHANGED <<now, reqVars, sessVars, authVars, cacheVars, logoutVars, autoVars, imgVars, creq, form, logs, seen>>

\* History of the checks made for each identifier, kept beside the table
\* and never read by check: whether its last counted check was refused for
\* the limit, the time of its last check of any outcome and of its last
\* counted one; and, for the last call, what it found of these and whether
\* it left the entry with one more attempt stamped now.
NoneSeen ==
    [by |-> [i \in Ids |-> [locked |-> FALSE, lastAny |-> 0, lastRec |-> 0]],
     last |-> [kind |-> "none", token |-> "a", wasLocked |-> FALSE,
               gapAny |-> 0, gapRec |-> 0, recorded |-> FALSE]]

SeenAfter(sn, m, out, token, t) ==
    LET p == sn.by[token]
        kind == out.res.kind
        b == Before(m, token, t)
    IN  [by |-> [sn.by EXCEPT ![token] =
                   [locked |-> IF kind = "limit" THEN TRUE
                               ELSE IF kind = "ok" THEN FALSE ELSE p.locked,
                    lastAny |-> t,
                    lastRec |-> IF kind = "capacity" THEN p.lastRec ELSE t]],
         last |-> [kind |-> kind, token |-> token, wasLocked |-> p.locked,
                   gapAny |-> t - p.lastAny, gapRec |-> t - p.lastRec,
                   recorded |->
                       /\ MapHas(out.att, token)
                       /\ MapGet(out.att, token).lastAttempt = t
                       /\ MapGet(out.att, token).count =
                            IF b.had /\ ~b.staleBefore THEN b.countBefore + 1
                            ELSE 1]]

\* rate-limit.js:20 check(1, token), with its history
LockCalled(token) ==
    /\ CalledBody(1, token, "check")
    /\ seen' = SeenAfter(seen, attempts, CheckCall(attempts, 1, token, now),
                         token, now)
    /\ UNCHANGED <<now, reqVars, sessVars, authVars, cacheVars, logoutVars, autoVars, imgVars, creq, form, logs>>

LockCheck == \E token \in Ids : LockCalled(token)

Check(limit, token) == Called(limit, token, "check")

\* validation.js:155 "limiter.check(5, identifier)": 5 in the code
LoginLimit == 2

\* validation.js:148-163: checkRateLimit(identifier) builds a limiter over
\* the module-level Map and calls check(5, identifier)
CheckRateLimit(identifier) == Called(LoginLimit, identifier, "checkRateLimit")

\* rate-limit.js:77 "getStatus(token)": limit is a parameter of check only,
\* no binding of that name is in scope in getStatus
LimitInScope == FALSE

\* rate-limit.js:77-95 getStatus(token): every return statement evaluates
\* limit. The outcome is kept in the status field of the last result.
GetStatusCall(m, limit, token, t) ==
    LET base == [NoResult EXCEPT !.token = token, !.via = "getStatus"]
    IN  IF ~MapHas(m, token) \/ IsStale(MapGet(m, token), t - Interval)
        THEN IF LimitInScope
             THEN [base EXCEPT !.status = "status", !.limit = limit, !.count = 0,
                               !.remaining = limit, !.resetTime = t + Interval]
             ELSE [base EXCEPT !.status = "ReferenceError"]
        ELSE LET e == MapGet(m, token)
             IN  IF LimitInScope
                 THEN [base EXCEPT !.status = "status", !.limit = limit,
                          !.count = e.count,
                          !.remaining = IF limit - e.count > 0
                                        THEN limit - e.count ELSE 0,
                          !.resetTime = e.windowStart + Interval]
                 ELSE [base EXCEPT !.status = "ReferenceError"]

GetStatus(token) ==
    /\ rlResult' = GetStatusCall(attempts, 1, token, now)
    /\ UNCHANGED <<now, attempts, run, reqVars, sessVars, authVars, cacheVars, logoutVars, autoVars, imgVars, creq, form, logs, seen>>

\* rate-limit.js:9-13: the loop of the sweep over the table at time t
SweepTableMutant(m, t) == SelectSeq(m, LAMBDA e : ~(e.lastAttempt < t - Interval))
SweepTable(m, t) == SelectSeq(m, LAMBDA e : ~(e.lastAttempt < t - Retention))

\* whether m2 holds exactly the entries of m whose last attempt is at most
\* the retention horizon before t, unchanged and in order (kept for the
\* claims)
ExactSweep(m, m2, t) ==
    LET recent == {j \in 1..Len(m) : t - m[j].lastAttempt <= Retention}
    IN  /\ Len(m2) = Cardinality(recent)
        /\ \A j \in recent : \E i \in 1..Len(m2) : m2[i] = m[j]
        /\ \A i, k \in 1..Len(m2) :
             i < k => \E j, l \in recent : j < l /\ m[j] = m2[i] /\ m[l] = m2[k]

\* rate-limit.js:7-14, the setInterval callback
Sweep ==
    /\ attempts' = SweepTable(attempts, now)
    /\ attempts' # attempts
    /\ run' = [i \in Ids |-> IF MapHas(attempts', i) THEN run[i] ELSE NoRun]
    /\ rlResult' = [rlResult EXCEPT !.swept = Len(attempts) - Len(attempts'),
                                    !.sweepExact = ExactSweep(attempts, attempts', now)]
    /\ UNCHANGED <<now, reqVars, sessVars, authVars, cacheVars, logoutVars, autoVars, imgVars, creq, form, logs, seen>>

RLCheck == \E limit \in Limits, token \in Ids : Check(limit, token)

RLCheckRateLimit == \E identifier \in Ids : CheckRateLimit(identifier)

RLGetStatus == \E token \in Ids : GetStatus(token)

\* identifiers of a busier table: more of them than the table has room for
ManyIds == Ids \cup {"c"}

\* rate-limit.js:20 check(limit, token) for any of them
EvictCheck == \E token \in ManyIds : Check(MaxLimit, token)

Tick ==
    /\ now < MaxTime
    /\ now' = now + 1

RLTick == Tick /\ UNCHANGED <<rlVars, reqVars, sessVars, authVars, cacheVars, logoutVars, autoVars, imgVars, creq, form, logs, seen>>

\* ------------------------------------------------------------ rate limiter: claims

C7_ResetAfterInterval ==
    (rlResult.staleBefore /\ rlResult.below)
    => /\ rlResult.kind = "ok"
       /\ rlResult.count = 1
       /\ rlResult.remaining = rlResult.limit - 1
       /\ rlResult.windowStart = rlResult.at
       /\ rlResult.resetTime = rlResult.at + Interval

\* a locked-out identifier (stored count above the limit) is admitted again
C7_Witness ==
    /\ rlResult.staleBefore /\ rlResult.below
    /\ rlResult.countBefore > rlResult.limit
    /\ rlResult.kind = "ok"

\* C8 (as claimed): whenever now - windowStart >= interval, check resets the
\* entry's count to 0 and its windowStart to now before incrementing.
C8_ResetAtWindowEnd ==
    (/\ rlResult.kind \in {"ok", "limit"}
     /\ rlResult.had
     /\ rlResult.at - rlResult.wsBefore >= Interval)
    => /\ rlResult.count = 1
       /\ rlResult.windowStart = rlResult.at

\* C17 (as claimed): counting the calls for an identifier from when it had
\* no entry, checkRateLimit returns allowed = true for a call that is among
\* the first LoginLimit made within one interval of the first, and
\* allowed = false with the retry message for the next one.
C17_CheckRateLimit ==
    LET r == run[rlResult.token]
    IN  (/\ rlResult.via = "checkRateLimit" /\ rlResult.kind # "none"
         /\ r.calls >= 1 /\ r.calls <= LoginLimit + 1
         /\ rlResult.at - r.first <= Interval)
        => IF r.calls <= LoginLimit
           THEN rlResult.allowed
           ELSE ~rlResult.allowed /\ rlResult.message = RetryMessage

\* C17 (amended): the same, for calls that each found the table below
\* capacity; checkRateLimit always returns a result, and the count it acts
\* on is the one kept in the shared table.
C17_CheckRateLimitBelowCapacity ==
    LET r == run[rlResult.token]
    IN  /\ (rlResult.via = "checkRateLimit" /\ rlResult.kind # "none")
           => /\ rlResult.allowed = (rlResult.kind = "ok")
              /\ ~rlResult.allowed => rlResult.message = RetryMessage
        /\ (/\ rlResult.via = "checkRateLimit" /\ rlResult.kind # "none"
            /\ r.calls >= 1 /\ r.calls <= LoginLimit + 1
            /\ r.clean
            /\ rlResult.at - r.first <= Interval)
           => IF r.calls <= LoginLimit
              THEN rlResult.allowed /\ rlResult.count = r.calls
              ELSE ~rlResult.allowed /\ rlResult.message = RetryMessage

\* the call after the first LoginLimit, a whole interval after the first
C17_Witness ==
    /\ rlResult.via = "checkRateLimit"
    /\ run[rlResult.token].calls = LoginLimit + 1
    /\ run[rlResult.token].clean
    /\ rlResult.at - run[rlResult.token].first = Interval
    /\ ~rlResult.allowed /\ rlResult.message = RetryMessage

\* C18: a check that finds at least Capacity entries whose last attempt is
\* within the interval (so that evicting stale entries cannot free a place)
\* fails with the capacity error, whose message differs from that of every
\* per-identifier limit error, and a call that fails with the capacity
\* error adds no entry and changes no entry of the table.
C18_CapacityError ==
    /\ (rlResult.kind # "none" /\ rlResult.freshBefore >= Capacity)
       => rlResult.kind = "capacity"
    /\ rlResult.kind = "capacity" => rlResult.error = CapacityError /\ rlResult.kept
    /\ rlResult.kind = "limit" => rlResult.error # CapacityError /\ ~rlResult.kept
    /\ rlResult.kind = "ok" => rlResult.error = NoMessage /\ ~rlResult.kept

\* the table is full of fresh entries and the identifier checked is one of them
C18_Witness ==
    /\ rlResult.kind = "capacity" /\ rlResult.error = CapacityError
    /\ rlResult.had /\ ~rlResult.staleBefore
    /\ rlResult.freshBefore >= Capacity
    /\ Len(attempts) = Capacity
    /\ MapGet(attempts, rlResult.token).count = rlResult.countBefore

\* C19 (as claimed): getStatus returns a {count, remaining, resetTime}
\* result for every identifier, and a getStatus call leaves the table as it
\* was.
C19_GetStatusReadOnly ==
    /\ [](rlResult.via = "getStatus" => rlResult.status = "status")
    /\ [][(rlResult'.via = "getStatus" /\ rlResult' # rlResult)
          => attempts' = attempts]_vars

C36_ResetTime ==
    /\ rlResult.kind \in {"ok", "limit"} => rlResult.resetTime >= rlResult.at
    /\ (/\ rlResult.kind \in {"ok", "limit"} /\ rlResult.had
        /\ rlResult.at >= rlResult.wsBefore + Interval)
       => rlResult.kind = "ok"

\* C37: the table never tracks more than Capacity identifiers, whatever
\* checks and sweeps are made; a new identifier that finds it full of fresh
\* entries is refused and not added.
C37_TrackedBound ==
    /\ Len(attempts) <= Capacity
    /\ Cardinality(Keys(attempts)) = Len(attempts)

\* a third identifier is refused by a full table
C37_Witness ==
    /\ Len(attempts) = Capacity
    /\ rlResult.kind = "capacity" /\ rlResult.token = "c" /\ ~rlResult.had
    /\ ~MapHas(attempts, "c")

\* C29 (as claimed): the capacity cleanup of one check call deletes at most
\* CleanLimit entries.
C29_EvictionBound == rlResult.evicted <= CleanLimit

\* an entry whose last attempt is more than Retention before now
HasOld == \E i \in 1..Len(attempts) : attempts[i].lastAttempt < now - Retention

\* C30: each sweep leaves exactly the entries whose last attempt is at most
\* the retention horizon before the sweep time, unchanged; and an entry
\* older than the horizon is eventually removed, whether or not check is
\* called again.
C30_Sweep == [](rlResult.sweepExact) /\ (HasOld ~> ~HasOld)

\* a sweep removed one entry and kept the other
C30_Witness ==
    /\ rlResult.swept = 1 /\ rlResult.sweepExact
    /\ Len(attempts) = 1 /\ attempts[1].lastAttempt >= now - Retention

\* ------------------------------------------------------------ serverRequest
\* part_001:203-209 API_ERRORS
TIMEOUT == "TIMEOUT"
NETWORK == "NETWORK"
NOT_FOUND == "NOT_FOUND"
SERVER_ERROR == "SERVER_ERROR"
INVALID_RESPONSE == "INVALID_RESPONSE"

\* upstream documents: the JSON value of a 200 body, or a body that is not JSON
GoodDoc == [type |-> "object", productId |-> 7, name |-> "shirt"]
NoDoc == [type |-> "none", productId |-> 0, name |-> ""]
Docs ==
    { GoodDoc,
      [type |-> "object", productId |-> 0, name |-> "shirt"],
      [type |-> "object", productId |-> 7, name |-> ""],
      [type |-> "null", productId |-> 0, name |-> ""],
      [type |-> "number", productId |-> 0, name |-> ""] }
Unparsable == [type |-> "unparsable", productId |-> 0, name |-> ""]
Bodies == Docs \cup {Unparsable}

\* non-2xx statuses the upstream may answer with
ErrStatuses == {400, 404, 408, 500, 504}

\* what one fetch can settle with
Outcomes ==
    {[k |-> "status", status |-> st, body |-> NoDoc] : st \in ErrStatuses}
    \cup {[k |-> "ok", status |-> 200, body |-> b] : b \in Bodies}
    \cup {[k |-> "fetchfailed", status |-> 0, body |-> NoDoc],
          [k |-> "othererror", status |-> 0, body |-> NoDoc]}

\* history tag of an attempt
Tag(o) ==
    IF o.k = "status" THEN <<"status", o.status>>
    ELSE IF o.k = "ok" THEN IF o.body = Unparsable THEN <<"badjson", 200>>
                            ELSE <<"ok", 200>>
    ELSE <<o.k, 0>>

\* part_001:211-219 class APIError
APIError(type, status) ==
    [name |-> "APIError", message |-> "", type |-> type, status |-> status]
OtherError(name, message) ==
    [name |-> name, message |-> message, type |-> "", status |-> 0]
NoError == OtherError("", "")

\* part_001:253-277: errorType of a non-ok response
ClassifyMutant(status) ==
    IF status = 404 THEN NOT_FOUND
    ELSE IF status = 408 THEN TIMEOUT
    ELSE SERVER_ERROR
Classify(status) ==
    IF status = 404 THEN NOT_FOUND
    ELSE IF status = 408 \/ status = 504 THEN TIMEOUT
    ELSE SERVER_ERROR

\* part_001:248-282: what the try block throws for a settled fetch (NoError
\* when it returns data)
Thrown(o) ==
    IF o.k = "status" THEN APIError(Classify(o.status), o.status)
    ELSE IF o.k = "ok" THEN IF o.body = Unparsable
                            THEN OtherError("SyntaxError", "Unexpected token")
                            ELSE NoError
    ELSE IF o.k = "fetchfailed" THEN OtherError("TypeError", "fetch failed")
    ELSE OtherError("TypeError", "other")

\* part_001:293 "error instanceof APIError && error.type === NOT_FOUND"
NoRetryForMutant(error) == FALSE
NoRetryFor(error) == error.name = "APIError" /\ error.type = NOT_FOUND

\* part_001:305 "attempt === retries"
IsLastAttemptMutant(attempt, retries) == attempt + 1 >= retries
IsLastAttempt(attempt, retries) == attempt = retries

\* part_001:313 Math.min(1000 * Math.pow(2, attempt), 5000), in seconds
BackoffDelay(attempt) == Min(1 * 2 ^ attempt, 5)

\* part_001:306-309 "lastError instanceof APIError ? lastError : new APIError(...)"
WrapMutant(lastError) == lastError
Wrap(lastError) ==
    IF lastError.name = "APIError" THEN lastError ELSE APIError(SERVER_ERROR, 0)

\* the catch block without its AbortError case (part_001:289-291)
CatchMutant(error, attempt, retries) ==
    IF NoRetryFor(error)
    THEN [throw |-> TRUE, error |-> error, delay |-> 0]
    ELSE LET lastError == IF error.message = "fetch failed"
                          THEN APIError(NETWORK, 0) ELSE error
         IN  IF IsLastAttempt(attempt, retries)
             THEN [throw |-> TRUE,
                   error |-> IF lastError.name = "APIError" THEN lastError
                             ELSE APIError(SERVER_ERROR, 0),
                   delay |-> 0]
             ELSE [throw |-> FALSE, error |-> lastError,
                   delay |-> BackoffDelay(attempt)]

\* part_001:284-316, the catch block: either the error serverRequest throws
\* or the delay it waits before the next attempt
Catch(error, attempt, retries) ==
    IF error.name = "AbortError"
    THEN [throw |-> TRUE, error |-> APIError(TIMEOUT, 0), delay |-> 0]
    ELSE IF NoRetryFor(error)
    THEN [throw |-> TRUE, error |-> error, delay |-> 0]
    ELSE LET lastError == IF error.message = "fetch failed"
                          THEN APIError(NETWORK, 0) ELSE error
         IN  IF IsLastAttempt(attempt, retries)
             THEN [throw |-> TRUE, error |-> Wrap(lastError), delay |-> 0]
             ELSE [throw |-> FALSE, error |-> lastError,
                   delay |-> BackoffDelay(attempt)]

\* part_001:403 "!id || isNaN(Number(id))"
ProductIds == {"12", "abc"}
InvalidId(id) == id # "12"

\* part_001:414-421: the shape check of serverGetProductById
Malformed(data) ==
    \/ data.type = "null" \/ data.type # "object"
    \/ data.productId = 0 \/ data.name = ""

\* part_001:191 CACHE_CONFIG.product (600 s), in ticks
ProductTTL == 2
\* part_001:223 "retries = 1"
DefaultRetries == 1

NoCached == [has |-> FALSE, body |-> NoDoc, storedAt |-> 0]

\* fetch with next: { revalidate } answers from its stored response while
\* the entry is younger than revalidate
Fresh(c, t) == c.has /\ t - c.storedAt < ProductTTL

NoOutcome == [kind |-> "none", error |-> NoError, data |-> NoDoc]

IdleReq ==
    [pc |-> "idle", caller |-> "direct", url |-> "12", retries |-> 0,
     attempt |-> 0, timer |-> "none", hist |-> <<>>, delays |-> <<>>,
     result |-> NoOutcome]

\* part_001:222-241: serverRequest(url, {retries}) up to the first fetch
ReqStartDirect(n) ==
    /\ req.pc \in {"idle", "done"}
    /\ req' = [IdleReq EXCEPT !.pc = "fetch", !.caller = "direct",
                              !.retries = n, !.timer = "armed"]
    /\ UNCHANGED <<now, rlVars, fetchCache, sessVars, authVars, cacheVars, logoutVars, autoVars, imgVars, creq, form, logs, seen>>

\* part_001:402-411: serverGetProductById(id, locale) up to the first fetch
ReqStartProduct(id) ==
    /\ req.pc \in {"idle", "done"}
    /\ req' = IF InvalidId(id)
              THEN [IdleReq EXCEPT !.pc = "done", !.caller = "product",
                        !.url = id,
                        !.result = [kind |-> "error",
                                    error |-> APIError(INVALID_RESPONSE, 0),
                                    data |-> NoDoc]]
              ELSE [IdleReq EXCEPT !.pc = "fetch", !.caller = "product",
                        !.url = id, !.retries = DefaultRetries,
                        !.timer = "armed"]
    /\ UNCHANGED <<now, rlVars, fetchCache, sessVars, authVars, cacheVars, logoutVars, autoVars, imgVars, creq, form, logs, seen>>

\* part_001:402-431: what serverGetProductById makes of serverGet's data
ProductResult(data) ==
    IF Malformed(data)
    THEN [kind |-> "error", error |-> APIError(INVALID_RESPONSE, 0), data |-> NoDoc]
    ELSE [kind |-> "data", error |-> NoError, data |-> data]

\* part_001:248-316: one fetch has settled with outcome o
Settle(o) ==
    LET error == Thrown(o)
        c == Catch(error, req.attempt, req.retries)
        h == Append(req.hist, Tag(o))
    IN  IF error = NoError
        THEN [req EXCEPT !.pc = "done", !.timer = "cleared", !.hist = h,
                  !.result = IF req.caller = "product" THEN ProductResult(o.body)
                             ELSE [kind |-> "data", error |-> NoError,
                                   data |-> o.body]]
        ELSE IF c.throw
        THEN [req EXCEPT !.pc = "done", !.timer = "cleared", !.hist = h,
                  !.result = [kind |-> "error", error |-> c.error, data |-> NoDoc]]
        ELSE [req EXCEPT !.pc = "backoff", !.timer = "cleared", !.hist = h,
                  !.delays = Append(@, c.delay)]

\* the fetch goes upstream and settles; a 200 response of a fetch made with
\* next.revalidate (serverGet, part_001:326-329) is stored before
\* serverRequest sees it
ReqRespond ==
    /\ req.pc = "fetch"
    /\ ~(req.caller = "product" /\ Fresh(fetchCache[req.url], now))
    /\ \E o \in Outcomes :
        /\ req' = Settle(o)
        /\ fetchCache' =
             IF req.caller = "product" /\ o.k = "ok"
             THEN [fetchCache EXCEPT ![req.url] =
                      [has |-> TRUE, body |-> o.body, storedAt |-> now]]
             ELSE fetchCache
    /\ UNCHANGED <<now, rlVars, sessVars, authVars, cacheVars, logoutVars, autoVars, imgVars, creq, form, logs, seen>>

\* the fetch is answered from the stored response, with no upstream call
ReqCacheHit ==
    /\ req.pc = "fetch"
    /\ req.caller = "product" /\ Fresh(fetchCache[req.url], now)
    /\ req' = [Settle([k |-> "ok", status |-> 200,
                       body |-> fetchCache[req.url].body])
                 EXCEPT !.hist = Append(req.hist, <<"cached", 200>>)]
    /\ UNCHANGED <<now, rlVars, fetchCache, sessVars, authVars, cacheVars, logoutVars, autoVars, imgVars, creq, form, logs, seen>>

\* part_001:227-229 and :289-291: the timer fires while the fetch is
\* pending, the fetch rejects with AbortError
ReqTimeout ==
    /\ req.pc = "fetch"
    /\ req.timer = "armed"
    /\ LET c == Catch(OtherError("AbortError", ""), req.attempt, req.retries)
           h == Append(req.hist, <<"abort", 0>>)
       IN  req' = IF c.throw
                  THEN [req EXCEPT !.pc = "done", !.timer = "fired", !.hist = h,
                            !.result = [kind |-> "error", error |-> c.error,
                                        data |-> NoDoc]]
                  ELSE [req EXCEPT !.pc = "backoff", !.timer = "fired",
                            !.hist = h, !.delays = Append(@, c.delay)]
    /\ UNCHANGED <<now, rlVars, fetchCache, sessVars, authVars, cacheVars, logoutVars, autoVars, imgVars, creq, form, logs, seen>>

\* part_001:244 and :315: the backoff wait is over, attempt++ and the loop test
ReqBackoffDone ==
    /\ req.pc = "backoff"
    /\ req' = IF req.attempt + 1 <= req.retries
              THEN [req EXCEPT !.pc = "fetch", !.attempt = @ + 1]
              ELSE [req EXCEPT !.pc = "done", !.attempt = @ + 1,
                               !.result = [kind |-> "undefined",
                                           error |-> NoError, data |-> NoDoc]]
    /\ UNCHANGED <<now, rlVars, fetchCache, sessVars, authVars, cacheVars, logoutVars, autoVars, imgVars, creq, form, logs, seen>>

ReqStart ==
    \/ \E n \in 0..MaxRetries : ReqStartDirect(n)
    \/ \E id \in ProductIds : ReqStartProduct(id)

ReqTick == Tick /\ UNCHANGED <<rlVars, reqVars, sessVars, authVars, cacheVars, logoutVars, autoVars, imgVars, creq, form, logs, seen>>

\* ------------------------------------------------------------ serverRequest: claims

\* statuses the claim calls ServerError: >= 500 (other than 504) or unclassified
ServerErrorTags == {<<"status", 400>>, <<"status", 500>>}

AllServerError(h) == Len(h) >= 1 /\ \A i \in 1..Len(h) : h[i] \in ServerErrorTags

\* C4: for every retries = n >= 0, a serverRequest whose every attempt is
\* answered with a ServerError status makes exactly n + 1 attempts and then
\* fails with the error of the last attempt (type ServerError, its status);
\* no request ever makes more than n + 1 attempts.
C4_RetryBound ==
    /\ Len(req.hist) <= req.retries + 1
    /\ (req.pc = "done" /\ req.caller = "direct" /\ AllServerError(req.hist))
       => /\ Len(req.hist) = req.retries + 1
          /\ req.result.kind = "error"
          /\ req.result.error = APIError(SERVER_ERROR, req.hist[Len(req.hist)][2])

\* retries = 2: three attempts answered 500, 500, 400
C4_Witness ==
    /\ req.pc = "done" /\ req.caller = "direct" /\ req.retries = 2
    /\ req.hist = <<(<<"status", 500>>), (<<"status", 500>>), (<<"status", 400>>)>>
    /\ req.result.error = APIError(SERVER_ERROR, 400)

\* C9: an attempt answered with HTTP 404 is never followed by another
\* attempt: the request fails at once with NotFound, so a request whose
\* endpoint answers 404 makes exactly one attempt whatever retries is.
C9_NotFoundNotRetried ==
    \A i \in 1..Len(req.hist) :
        req.hist[i] = <<"status", 404>>
        => /\ i = Len(req.hist)
           /\ req.pc = "done"
           /\ req.result.kind = "error"
           /\ req.result.error = APIError(NOT_FOUND, 404)

\* retries = 2 and the first answer is 404: one attempt
C9_Witness ==
    /\ req.pc = "done" /\ req.retries = 2
    /\ req.hist = <<(<<"status", 404>>)>>
    /\ req.result.error = APIError(NOT_FOUND, 404)

\* C10 (as claimed): a malformed product document (not an object, or without
\* productId or name) is never held by the cache.
C10_MalformedNeverCached ==
    \A u \in ProductIds :
        fetchCache[u].has
        => /\ fetchCache[u].body.type = "object"
           /\ fetchCache[u].body.productId # 0
           /\ fetchCache[u].body.name # ""

\* C14: an attempt during which the timeout fires is the last one: the
\* request fails at once with a Timeout error, whatever retries is.
C14_TimeoutNotRetried ==
    \A i \in 1..Len(req.hist) :
        req.hist[i] = <<"abort", 0>>
        => /\ i = Len(req.hist)
           /\ req.pc = "done"
           /\ req.result.kind = "error"
           /\ req.result.error = APIError(TIMEOUT, 0)

\* retries = 2 and the timer fires during the first fetch: one attempt
C14_Witness ==
    /\ req.pc = "done" /\ req.caller = "direct" /\ req.retries = 2
    /\ req.hist = <<(<<"abort", 0>>)>>
    /\ req.timer = "fired"
    /\ req.result.error = APIError(TIMEOUT, 0)

\* the error the claims expect an attempt with a given history tag to produce
ExpectedError(tag) ==
    IF tag[1] = "status"
    THEN APIError(IF tag[2] = 404 THEN NOT_FOUND
                  ELSE IF tag[2] \in {408, 504} THEN TIMEOUT
                  ELSE SERVER_ERROR, tag[2])
    ELSE IF tag[1] = "abort" THEN APIError(TIMEOUT, 0)
    ELSE IF tag[1] = "fetchfailed" THEN APIError(NETWORK, 0)
    ELSE APIError(SERVER_ERROR, 0)

\* C22: every error serverRequest fails with is an APIError of one of the
\* five types, and a request that used all its attempts fails with the
\* error its last attempt produced: Network for a failed connection, the
\* status' classification for an HTTP status.
C22_TypedErrors ==
    (req.pc = "done" /\ req.result.kind = "error")
    => /\ req.result.error.name = "APIError"
       /\ req.result.error.type \in
            {TIMEOUT, NETWORK, NOT_FOUND, SERVER_ERROR, INVALID_RESPONSE}
       /\ (req.caller = "direct" /\ Len(req.hist) = req.retries + 1)
          => req.result.error = ExpectedError(req.hist[Len(req.hist)])

\* the last of three attempts could not connect, after a 500 and a body that
\* is not JSON
C22_Witness ==
    /\ req.pc = "done" /\ req.caller = "direct" /\ req.retries = 2
    /\ req.hist = <<(<<"status", 500>>), (<<"badjson", 200>>), (<<"fetchfailed", 0>>)>>
    /\ req.result.error = APIError(NETWORK, 0)

\* C23: a request that ends on a non-2xx answer fails with the error that
\* classifies the status (404 NotFound, 408 and 504 Timeout, any other
\* ServerError) and carries the status.
C23_StatusClassification ==
    (/\ req.pc = "done" /\ req.caller = "direct" /\ Len(req.hist) >= 1
     /\ req.hist[Len(req.hist)][1] = "status")
    => /\ req.result.kind = "error"
       /\ req.result.error.status = req.hist[Len(req.hist)][2]
       /\ req.result.error.type =
            (IF req.result.error.status = 404 THEN NOT_FOUND
             ELSE IF req.result.error.status \in {408, 504} THEN TIMEOUT
             ELSE SERVER_ERROR)

\* a 504 after a 400: Timeout with status 504
C23_Witness ==
    /\ req.pc = "done" /\ req.caller = "direct" /\ req.retries = 1
    /\ req.hist = <<(<<"status", 400>>), (<<"status", 504>>)>>
    /\ req.result.error = APIError(TIMEOUT, 504)

\* C25 (as claimed): every attempt is bounded by the timeout, so a fetch
\* that is pending always has the timeout timer armed.
C25_EveryAttemptTimed == req.pc = "fetch" => req.timer = "armed"

\* failing tags after which the claim expects another attempt
RetriedTags ==
    {<<"status", 400>>, <<"status", 408>>, <<"status", 500>>, <<"status", 504>>,
     <<"badjson", 200>>, <<"fetchfailed", 0>>, <<"othererror", 0>>}

\* an attempt answered from the stored response (a stored body that is not
\* JSON fails like a fresh one)
CachedTag == <<"cached", 200>>

\* C26: a request makes at most retries + 1 attempts; it waits for another
\* attempt only while fewer than retries retries are used, and that attempt
\* is then made; a request that failed on an attempt answered with anything
\* but a 404 or the local timeout has made all its retries + 1 attempts.
C26_RetryContinues ==
    /\ Len(req.hist) <= req.retries + 1
    /\ req.pc = "backoff"
       => /\ req.attempt < req.retries
          /\ Len(req.hist) = req.attempt + 1
          /\ req.hist[Len(req.hist)] \in RetriedTags \cup {CachedTag}
    /\ req.pc = "fetch" => Len(req.hist) = req.attempt
    /\ req.result.kind # "undefined"
    /\ (/\ req.pc = "done" /\ Len(req.hist) >= 1
        /\ req.hist[Len(req.hist)] \in RetriedTags)
       => /\ Len(req.hist) = req.retries + 1
          /\ req.result.kind = "error"
          /\ \A i \in 1..Len(req.hist) :
                req.hist[i] \in RetriedTags \cup {CachedTag}

\* retries = 2: a 408, a body that is not JSON and a failed connection
C26_Witness ==
    /\ req.pc = "done" /\ req.caller = "direct" /\ req.retries = 2
    /\ req.hist = <<(<<"status", 408>>), (<<"badjson", 200>>), (<<"fetchfailed", 0>>)>>
    /\ req.result.kind = "error"

\* ------------------------------------------------------------ clientRequest
\* what one fetch of clientRequest can settle with
ClientOutcomes ==
    {[k |-> "status", status |-> st, body |-> NoDoc] : st \in {404, 500}}
    \cup {[k |-> "ok", status |-> 200, body |-> b] : b \in {GoodDoc, Unparsable}}
    \cup {[k |-> "fetchfailed", status |-> 0, body |-> NoDoc]}

\* part_001:452-460: what the try block throws for a settled fetch (NoError
\* when it returns data)
ClientThrown(o) ==
    IF o.k = "status" THEN APIError(SERVER_ERROR, o.status)
    ELSE IF o.k = "ok" THEN IF o.body = Unparsable
                            THEN OtherError("SyntaxError", "Unexpected token")
                            ELSE NoError
    ELSE OtherError("TypeError", "fetch failed")

\* part_001:476 1000 * Math.pow(2, attempt), in seconds
ClientBackoffDelay(attempt) == 1 * 2 ^ attempt

\* part_001:461-477, the catch block: either the error clientRequest throws
\* or the delay it waits before the next attempt
ClientCatch(error, attempt, retries) ==
    IF error.name = "AbortError"
    THEN [throw |-> TRUE, error |-> APIError(TIMEOUT, 0), delay |-> 0]
    ELSE IF attempt = retries
    THEN [throw |-> TRUE,
          error |-> IF error.name = "APIError" THEN error
                    ELSE APIError(NETWORK, 0),
          delay |-> 0]
    ELSE [throw |-> FALSE, error |-> error, delay |-> ClientBackoffDelay(attempt)]

IdleClient ==
    [pc |-> "idle", retries |-> 0, attempt |-> 0, timer |-> "none",
     hist |-> <<>>, delays |-> <<>>, result |-> NoOutcome]

\* part_001:434-450: clientRequest(url, {retries}) up to the first fetch
ClientStartWith(n) ==
    /\ creq.pc \in {"idle", "done"}
    /\ creq' = [IdleClient EXCEPT !.pc = "fetch", !.retries = n, !.timer = "armed"]
    /\ UNCHANGED <<now, rlVars, reqVars, sessVars, authVars, cacheVars, logoutVars, autoVars, imgVars, form, logs, seen>>

\* part_001:452-477: one fetch has settled with outcome o
ClientSettle(o) ==
    LET error == ClientThrown(o)
        c == ClientCatch(error, creq.attempt, creq.retries)
        h == Append(creq.hist, Tag(o))
    IN  IF error = NoError
        THEN [creq EXCEPT !.pc = "done", !.timer = "cleared", !.hist = h,
                   !.result = [kind |-> "data", error |-> NoError, data |-> o.body]]
        ELSE IF c.throw
        THEN [creq EXCEPT !.pc = "done", !.timer = "cleared", !.hist = h,
                   !.result = [kind |-> "error", error |-> c.error, data |-> NoDoc]]
        ELSE [creq EXCEPT !.pc = "backoff", !.timer = "cleared", !.hist = h,
                   !.delays = Append(@, c.delay)]

ClientRespond ==
    /\ creq.pc = "fetch"
    /\ \E o \in ClientOutcomes : creq' = ClientSettle(o)
    /\ UNCHANGED <<now, rlVars, reqVars, sessVars, authVars, cacheVars, logoutVars, autoVars, imgVars, form, logs, seen>>

\* part_001:438 and :465-467: the timer fires while the fetch is pending, the
\* fetch rejects with AbortError
ClientTimeout ==
    /\ creq.pc = "fetch"
    /\ creq.timer = "armed"
    /\ LET c == ClientCatch(OtherError("AbortError", ""), creq.attempt, creq.retries)
       IN  creq' = [creq EXCEPT !.pc = "done", !.timer = "fired",
                         !.hist = Append(@, <<"abort", 0>>),
                         !.result = [kind |-> "error", error |-> c.error,
                                     data |-> NoDoc]]
    /\ UNCHANGED <<now, rlVars, reqVars, sessVars, authVars, cacheVars, logoutVars, autoVars, imgVars, form, logs, seen>>

\* part_001:451 and :476: the backoff wait is over, attempt++ and the loop test
ClientBackoffDone ==
    /\ creq.pc = "backoff"
    /\ creq' = IF creq.attempt + 1 <= creq.retries
               THEN [creq EXCEPT !.pc = "fetch", !.attempt = @ + 1]
               ELSE [creq EXCEPT !.pc = "done", !.attempt = @ + 1,
                                 !.result = [kind |-> "undefined",
                                             error |-> NoError, data |-> NoDoc]]
    /\ UNCHANGED <<now, rlVars, reqVars, sessVars, authVars, cacheVars, logoutVars, autoVars, imgVars, form, logs, seen>>

ClientStart == \E n \in 0..MaxClientRetries : ClientStartWith(n)

\* ------------------------------------------------------------ clientRequest: claims

\* C27 (as claimed): an attempt of clientRequest answered with HTTP 404 is
\* never followed by another attempt: the request fails at once with
\* NotFound.
C27_ClientNotFoundNotRetried ==
    \A i \in 1..Len(creq.hist) :
        creq.hist[i] = <<"status", 404>>
        => /\ i = Len(creq.hist)
           /\ creq.pc = "done"
           /\ creq.result.kind = "error"
           /\ creq.result.error = APIError(NOT_FOUND, 404)

\* C28 (as claimed): the delay waited after attempt k is min(1000 * 2^k, 5000)
\* ms, in serverRequest and in clientRequest alike.
C28_BackoffDelay ==
    /\ \A i \in 1..Len(req.delays) : req.delays[i] = Min(1 * 2 ^ (i - 1), 5)
    /\ \A i \in 1..Len(creq.delays) : creq.delays[i] = Min(1 * 2 ^ (i - 1), 5)

\* ------------------------------------------------------------ session bridge
\* route.js:55 and :65 "24 * 60 * 60 * 1000", in ticks
TokenLifetime == 2

\* bearer tokens the upstream issues; Undefined is a missing field
Tokens == {"T1", "T2"}
Undefined == "undefined"

NoToken ==
    [has |-> FALSE, id |-> Undefined, mobile |-> Undefined,
     accessToken |-> Undefined, tokenIssuedAt |-> 0, tokenExpiresAt |-> 0]

NoSession ==
    [user |-> [id |-> Undefined, mobile |-> Undefined],
     accessToken |-> Undefined, tokenExpiresAt |-> 0]

IdleRead ==
    [pc |-> "idle", kind |-> "none", session |-> NoSession,
     expiredAtStart |-> FALSE, tokenBefore |-> Undefined, startedAt |-> 0,
     refreshCalls |-> 0, refreshWith |-> Undefined, refreshOk |-> FALSE,
     answered |-> Undefined, token |-> NoToken, doneAt |-> 0]

\* route.js:59 and :86 "token.tokenExpiresAt && Date.now() > token.tokenExpiresAt"
ExpiredMutant(token, t) == token.tokenExpiresAt # 0 /\ t > token.tokenExpiresAt + 1
Expired(token, t) == token.tokenExpiresAt # 0 /\ t > token.tokenExpiresAt

\* the session callback without its accessToken test (route.js:81-83)
SessionCallbackMutant(token, t) ==
    IF ~token.has
    THEN [kind |-> "null", session |-> NoSession]
    ELSE IF Expired(token, t)
    THEN [kind |-> "null", session |-> NoSession]
    ELSE [kind |-> "session",
          session |-> [user |-> [id |-> token.id, mobile |-> token.mobile],
                       accessToken |-> token.accessToken,
                       tokenExpiresAt |-> token.tokenExpiresAt]]

\* route.js:79-104, the session callback: the session object handed to the
\* client, or "null"
SessionCallback(token, t) ==
    IF ~token.has \/ token.accessToken = Undefined
    THEN [kind |-> "null", session |-> NoSession]
    ELSE IF Expired(token, t)
    THEN [kind |-> "null", session |-> NoSession]
    ELSE [kind |-> "session",
          session |-> [user |-> [id |-> token.id, mobile |-> token.mobile],
                       accessToken |-> token.accessToken,
                       tokenExpiresAt |-> token.tokenExpiresAt]]

\* route.js:18-41 authorize and :46-56 jwt({token, user}) at sign-in
SignIn(id, mobile, tok) ==
    /\ sread.pc = "idle"
    /\ tok # Undefined /\ id # Undefined
    /\ jwt' = [has |-> TRUE, id |-> id, mobile |-> mobile, accessToken |-> tok,
               tokenIssuedAt |-> now, tokenExpiresAt |-> now + TokenLifetime]
    /\ UNCHANGED <<now, rlVars, reqVars, sread, authVars, cacheVars, logoutVars, autoVars, imgVars, creq, form, logs, seen>>

\* route.js:46-77: a session read calls jwt({token}); an expired token
\* suspends it on refreshAccessToken(token.accessToken), otherwise the token
\* is returned as it is and the session callback runs
ReadStart ==
    /\ sread.pc = "idle"
    /\ jwt.has
    /\ LET start == [IdleRead EXCEPT !.expiredAtStart = jwt.tokenExpiresAt < now,
                                     !.tokenBefore = jwt.accessToken,
                                     !.startedAt = now]
       IN  IF Expired(jwt, now)
           THEN sread' = [start EXCEPT !.pc = "refreshing", !.refreshCalls = 1,
                                       !.refreshWith = jwt.accessToken]
           ELSE LET out == SessionCallback(jwt, now)
                IN  sread' = [start EXCEPT !.kind = out.kind,
                                           !.session = out.session,
                                           !.token = jwt, !.doneAt = now]
    /\ UNCHANGED <<now, rlVars, reqVars, jwt, authVars, cacheVars, logoutVars, autoVars, imgVars, creq, form, logs, seen>>

\* what POST /auth/refresh can answer: 2xx with data.accessToken or
\* data.token, 2xx with neither, a non-2xx status, or a failed fetch
RefreshAnswers ==
    {[ok |-> TRUE, accessToken |-> t] : t \in Tokens \cup {Undefined}}
    \cup {[ok |-> FALSE, accessToken |-> Undefined]}

\* route.js:201-224 refreshAccessToken, then :62-76 and the session callback
ReadRefreshed ==
    /\ sread.pc = "refreshing"
    /\ \E a \in RefreshAnswers :
        IF a.ok
        THEN LET token == [jwt EXCEPT !.accessToken = a.accessToken,
                                      !.tokenIssuedAt = now,
                                      !.tokenExpiresAt = now + TokenLifetime]
                 out == SessionCallback(token, now)
             IN  /\ jwt' = token
                 /\ sread' = [sread EXCEPT !.pc = "idle", !.kind = out.kind,
                                           !.session = out.session,
                                           !.refreshOk = TRUE,
                                           !.answered = a.accessToken,
                                           !.token = token, !.doneAt = now]
        ELSE /\ jwt' = NoToken
             /\ sread' = [sread EXCEPT !.pc = "idle", !.kind = "null",
                                       !.session = NoSession,
                                       !.refreshOk = FALSE,
                                       !.token = NoToken, !.doneAt = now]
    /\ UNCHANGED <<now, rlVars, reqVars, authVars, cacheVars, logoutVars, autoVars, imgVars, creq, form, logs, seen>>

SessSignIn == \E tok \in Tokens : SignIn("u1", "0100000000", tok)

SessTick == Tick /\ UNCHANGED <<rlVars, reqVars, sessVars, authVars, cacheVars, logoutVars, autoVars, imgVars, creq, form, logs, seen>>

\* ------------------------------------------------------------ session bridge: claims

\* C2 (as claimed): no field of a session returned by the session callback,
\* at top level or under user, holds the accessToken of the server-side token.
C2_NoTokenInSession ==
    (sread.pc = "idle" /\ sread.kind = "session")
    => /\ sread.session.accessToken # sread.token.accessToken
       /\ sread.session.user.id # sread.token.accessToken
       /\ sread.session.user.mobile # sread.token.accessToken

\* C5: a session read that finds tokenExpiresAt in the past makes exactly one
\* refresh call, with the token stored at that time; when the refresh
\* succeeds the jwt callback returns a re-issued token whose tokenExpiresAt
\* is later than the time the read ended; when it fails the read returns no
\* session and no token.
C5_RefreshOnExpiry ==
    (sread.pc = "idle" /\ sread.kind # "none" /\ sread.expiredAtStart)
    => /\ sread.refreshCalls = 1
       /\ sread.refreshWith = sread.tokenBefore
       /\ sread.refreshOk => /\ sread.token.has
                             /\ sread.token.accessToken = sread.answered
                             /\ sread.token.tokenIssuedAt = sread.doneAt
                             /\ sread.token.tokenExpiresAt > sread.doneAt
       /\ ~sread.refreshOk => sread.kind = "null" /\ ~sread.token.has

\* an expired T1 was refreshed to T2 after time passed during the call
C5_Witness ==
    /\ sread.pc = "idle" /\ sread.expiredAtStart /\ sread.refreshOk
    /\ sread.tokenBefore = "T1" /\ sread.token.accessToken = "T2"
    /\ sread.doneAt > sread.startedAt
    /\ sread.kind = "session"

C38_ReturnedTokenUsable ==
    (sread.pc = "idle" /\ sread.kind # "none" /\ sread.token.has)
    => /\ sread.token.accessToken # Undefined
       /\ sread.token.tokenExpiresAt > sread.startedAt

\* the accessToken half of C38 alone
C38_ReturnedTokenHasAccessToken ==
    (sread.pc = "idle" /\ sread.kind # "none" /\ sread.token.has)
    => sread.token.accessToken # Undefined

\* ------------------------------------------------------------ useAuth
AuthActions == {"login", "signup", "verifyOTP", "setPassword", "setPersonalInfo"}

\* part_000:35, :116, :152: the actions that call checkRateLimit
RateLimited(a) == a \in {"login", "signup", "verifyOTP"}

\* part_000:9-12: loading and error state, abortControllerRef.current (0 is
\* null, i the controller made by invocation i), the controllers aborted so
\* far, and the value of loading that the rendered callbacks closed over
InitHook ==
    [loading |-> FALSE, error |-> "null", abortRef |-> 0, aborted |-> {},
     closure |-> FALSE]

NoInv ==
    [pc |-> "unused", action |-> "login", allowed |-> TRUE, result |-> "none",
     checks |-> 0, calls |-> 0, busyAtCall |-> FALSE]

InFlight(i) == inv[i].pc \in {"rateLimit", "upstream", "signIn"}

\* part_000:102-105 etc.: the finally block
Finally(h) == [h EXCEPT !.loading = FALSE, !.abortRef = 0]

\* part_000:27 "if (loading) return ..." reads the loading of the render the
\* callback was created in
Guard(h) == h.closure

\* part_000:26-35, :108-116, :144-152, :180-188, :210-218: an action is
\* called; it runs up to its first await. React commits a pending state
\* update before it dispatches the next user event.
Invoke(i, a) ==
    /\ inv[i].pc = "unused"
    /\ \A j \in 1..(i - 1) : inv[j].pc # "unused"
    /\ hook.closure = hook.loading
    /\ LET busy == \E j \in 1..MaxInv : InFlight(j)
       IN
       IF Guard(hook)
       THEN /\ inv' = [inv EXCEPT ![i] =
                        [NoInv EXCEPT !.pc = "done", !.action = a,
                                      !.result = "inProgress",
                                      !.busyAtCall = busy]]
            /\ UNCHANGED hook
       ELSE /\ hook' = [hook EXCEPT !.loading = TRUE, !.error = "null",
                                    !.abortRef = i]
            /\ \E ok \in BOOLEAN :
                 inv' = [inv EXCEPT ![i] =
                          IF RateLimited(a)
                          THEN [NoInv EXCEPT !.pc = "rateLimit", !.action = a,
                                             !.allowed = ok, !.checks = 1,
                                             !.busyAtCall = busy]
                          ELSE [NoInv EXCEPT !.pc = "upstream", !.action = a,
                                             !.calls = 1,
                                             !.busyAtCall = busy]]
    /\ UNCHANGED <<now, rlVars, reqVars, sessVars, cacheVars, logoutVars, autoVars, imgVars, creq, form, logs, seen>>

\* part_000:36-44 etc.: checkRateLimit has answered
AfterRateLimit(i) ==
    /\ inv[i].pc = "rateLimit"
    /\ IF inv[i].allowed
       THEN /\ inv' = [inv EXCEPT ![i].pc = "upstream", ![i].calls = @ + 1]
            /\ UNCHANGED hook
       ELSE /\ inv' = [inv EXCEPT ![i].pc = "done", ![i].result = "rateLimited"]
            /\ hook' = Finally([hook EXCEPT !.error = "rateLimited"])
    /\ UNCHANGED <<now, rlVars, reqVars, sessVars, cacheVars, logoutVars, autoVars, imgVars, creq, form, logs, seen>>

\* part_000:92-101 etc.: the catch block
Caught(h, name) ==
    IF name = "AbortError"
    THEN [hook |-> Finally(h), result |-> "cancelled"]
    ELSE [hook |-> Finally([h EXCEPT !.error = "unexpected"]), result |-> "error"]

\* part_000:44-91 etc.: the AuthService call has settled: it returned
\* success or failure, or threw
UpstreamSettles(i) ==
    /\ inv[i].pc = "upstream"
    /\ \E o \in {"success", "failure", "AbortError", "Error"} :
        IF o = "success"
        THEN IF inv[i].action = "login"
             THEN /\ inv' = [inv EXCEPT ![i].pc = "signIn"]
                  /\ UNCHANGED hook
             ELSE /\ inv' = [inv EXCEPT ![i].pc = "done", ![i].result = "success"]
                  /\ hook' = Finally(hook)
        ELSE IF o = "failure"
        THEN /\ inv' = [inv EXCEPT ![i].pc = "done", ![i].result = "failed"]
             /\ hook' = Finally([hook EXCEPT !.error = "failed"])
        ELSE /\ inv' = [inv EXCEPT ![i].pc = "done",
                                   ![i].result = Caught(hook, o).result]
             /\ hook' = Caught(hook, o).hook
    /\ UNCHANGED <<now, rlVars, reqVars, sessVars, cacheVars, logoutVars, autoVars, imgVars, creq, form, logs, seen>>

\* part_000:50-86: login's signIn("credentials", ...) has settled
SignInSettles(i) ==
    /\ inv[i].pc = "signIn"
    /\ \E o \in {"ok", "error", "neither", "AbortError", "Error"} :
        IF o = "ok"
        THEN /\ inv' = [inv EXCEPT ![i].pc = "done", ![i].result = "success"]
             /\ hook' = Finally(hook)
        ELSE IF o \in {"error", "neither"}
        THEN /\ inv' = [inv EXCEPT ![i].pc = "done", ![i].result = "failed"]
             /\ hook' = Finally([hook EXCEPT !.error = "failed"])
        ELSE /\ inv' = [inv EXCEPT ![i].pc = "done",
                                   ![i].result = Caught(hook, o).result]
             /\ hook' = Caught(hook, o).hook
    /\ UNCHANGED <<now, rlVars, reqVars, sessVars, cacheVars, logoutVars, autoVars, imgVars, creq, form, logs, seen>>

\* part_000:18-24 cleanup, called by cancelRequest (:240-242)
CancelRequest ==
    /\ hook.closure = hook.loading
    /\ hook.loading \/ hook.abortRef # 0
    /\ hook' = [hook EXCEPT !.loading = FALSE, !.abortRef = 0,
                            !.aborted = IF hook.abortRef # 0
                                        THEN @ \cup {hook.abortRef} ELSE @]
    /\ UNCHANGED <<now, rlVars, reqVars, sessVars, inv, cacheVars, logoutVars, autoVars, imgVars, creq, form, logs, seen>>

\* React re-renders: the callbacks are recreated with the current loading
\* (part_000:106 etc., the dependency lists)
Render ==
    /\ hook.closure # hook.loading
    /\ hook' = [hook EXCEPT !.closure = hook.loading]
    /\ UNCHANGED <<now, rlVars, reqVars, sessVars, inv, cacheVars, logoutVars, autoVars, imgVars, creq, form, logs, seen>>

AuthInvoke == \E i \in 1..MaxInv, a \in AuthActions : Invoke(i, a)
AuthAfterRateLimit == \E i \in 1..MaxInv : AfterRateLimit(i)
AuthUpstreamSettles == \E i \in 1..MaxInv : UpstreamSettles(i)
AuthSignInSettles == \E i \in 1..MaxInv : SignInSettles(i)

\* ------------------------------------------------------------ useAuth: claims

\* C3 (as claimed): at most one auth action is in flight at any time, and an
\* action called while another is in flight returns the "request already in
\* progress" failure with no rate-limiter check and no upstream call.
C3_SingleFlight ==
    /\ Cardinality({i \in 1..MaxInv : InFlight(i)}) <= 1
    /\ \A i \in 1..MaxInv :
        (inv[i].pc # "unused" /\ inv[i].busyAtCall)
        => /\ inv[i].result = "inProgress"
           /\ inv[i].checks = 0 /\ inv[i].calls = 0

\* C12 (as claimed): every auth action checks the rate limiter before any
\* upstream call, and an action the limiter rejects returns the limiter's
\* message with no upstream call made.
C12_RateLimitBeforeUpstream ==
    \A i \in 1..MaxInv :
        /\ inv[i].calls >= 1 => inv[i].checks >= 1
        /\ inv[i].result = "rateLimited" => inv[i].calls = 0

\* C13 (as claimed): an action whose controller was aborted by cancelRequest
\* while it was in flight resolves with the "cancelled" outcome, never with
\* success or with an error outcome.
C13_CancelledOutcome ==
    \A i \in 1..MaxInv :
        (i \in hook.aborted /\ inv[i].pc = "done") => inv[i].result = "cancelled"

\* ------------------------------------------------------------ cachedRequest
\* client.js:25 "revalidate: 300", in ticks
CacheTTL == 2

\* client.js:15 cacheKey = `${url}-${JSON.stringify(options)}`: the url and
\* the options, which carry the langCode header (client.js:68-75)
Urls == {"getBasicData?categoryId=5"}
LangCodes == {"1", "2"}

\* client.js:68, :78 and part_001:356-359 "locale === 'en' ? '2' : '1'"
Locales == {"en", "ar", "fr"}
LangCode(locale) == IF locale = "en" THEN "2" ELSE "1"

\* JSON.stringify(options) of the options getCategoryFilters passes
\* (client.js:72-75)
JSONStringify(langCode) ==
    "{\"headers\":{\"langCode\":\"" \o langCode
        \o "\"},\"next\":{\"revalidate\":3600,\"tags\":[\"category-5\"]}}"

CacheKeyMutant(url, langCode) == url \o "-" \o "{}"
CacheKey(url, langCode) == url \o "-" \o JSONStringify(langCode)
CacheKeys == {CacheKey(u, l) : u \in Urls, l \in LangCodes}

\* client.js:72-75: the options getCategoryFilters passes for category 5
CategoryOptions(langCode) ==
    [headers |-> [langCode |-> langCode],
     next |-> [revalidate |-> 3600, tags |-> <<"category-5">>]]

\* client.js:22-26: the second argument of fetch, an object literal in which
\* a later key replaces an earlier one: ...options, then headers, then next
FetchOptions(options) ==
    [next |-> [revalidate |-> 300, tags |-> <<"products", "categories">>]]
    @@ [headers |-> options.headers]
    @@ options

\* part_001:321-331: the next option serverGet passes to serverRequest for
\* a cacheTime (0 when the caller gives none: CACHE_CONFIG has no default)
ServerGetNext(url, cacheTime) ==
    [revalidate |-> IF cacheTime # 0 THEN <<cacheTime>> ELSE <<>>,
     tags |-> <<url>>]

\* part_001:189-194 CACHE_CONFIG, as the accessors of part_001:361-411 use it
CACHE_CONFIG ==
    [home |-> 300, product |-> 600, productBundle |-> 300, advancedSearch |-> 60]

NoNext == [revalidate |-> 0, tags |-> <<>>]

\* the documents the upstream serves over time
Versions == {"v1", "v2"}

\* storedAt is kept for the claims; the Map of client.js:7 stores the value
\* only. lang is the language the stored document is written in.
NoEntry == [has |-> FALSE, value |-> "none", storedAt |-> 0, lang |-> "none"]

NoFetch ==
    [pc |-> "unused", key |-> CacheKey("getBasicData?categoryId=5", "1"),
     langCode |-> "1", docLang |-> "none",
     startedAt |-> 0, upstream |-> FALSE, result |-> "none", value |-> "none",
     hadEntry |-> FALSE, entryAge |-> 0, entryValue |-> "none",
     prevFailed |-> FALSE, kept |-> TRUE, asked |-> NoNext, applied |-> NoNext]

\* client.js:17 "this.cache.has(cacheKey)"
MapHit(c, k, t) == c[k].has

\* client.js:14-22: cachedRequest(url, options) up to its fetch; a key the
\* Map holds is answered at once. React's cache() compares the options
\* argument by identity and every caller passes a new object, so it never
\* answers.
FetchStart(i, url, langCode) ==
    /\ fetches[i].pc = "unused"
    /\ \A j \in 1..(i - 1) : fetches[j].pc # "unused"
    /\ LET k == CacheKey(url, langCode)
           f == [NoFetch EXCEPT !.key = k, !.langCode = langCode,
                                !.startedAt = now,
                                !.hadEntry = apiCache[k].has,
                                !.entryAge = now - apiCache[k].storedAt,
                                !.entryValue = apiCache[k].value,
                                !.asked = CategoryOptions(langCode).next,
                                !.applied =
                                    IF MapHit(apiCache, k, now) THEN NoNext
                                    ELSE FetchOptions(CategoryOptions(langCode)).next,
                                !.prevFailed =
                                    \E j \in 1..(i - 1) :
                                        /\ fetches[j].pc = "done"
                                        /\ fetches[j].result = "error"
                                        /\ fetches[j].key = k]
       IN  fetches' = [fetches EXCEPT ![i] =
                IF MapHit(apiCache, k, now)
                THEN [f EXCEPT !.pc = "done", !.result = "data",
                               !.value = apiCache[k].value,
                               !.docLang = apiCache[k].lang]
                ELSE [f EXCEPT !.pc = "fetching"]]
    /\ UNCHANGED <<now, rlVars, reqVars, sessVars, authVars, apiCache, dataCache, logoutVars, autoVars, imgVars, creq, form, logs, seen>>

\* client.js:22-34: the fetch is answered by the upstream with a 2xx
\* document, written in the language of the langCode header sent, which
\* fetch keeps for revalidate seconds and cachedRequest puts in the Map
FetchUpstreamOk(i) ==
    /\ fetches[i].pc = "fetching"
    /\ LET k == fetches[i].key
       IN  /\ ~(dataCache[k].has /\ now - dataCache[k].storedAt < CacheTTL)
           /\ \E v \in Versions :
                /\ dataCache' = [dataCache EXCEPT ![k] =
                       [has |-> TRUE, value |-> v, storedAt |-> now,
                        lang |-> fetches[i].langCode]]
                /\ apiCache' = [apiCache EXCEPT ![k] =
                       [has |-> TRUE, value |-> v, storedAt |-> now,
                        lang |-> fetches[i].langCode]]
                /\ fetches' = [fetches EXCEPT ![i].pc = "done",
                                  ![i].upstream = TRUE, ![i].result = "data",
                                  ![i].value = v,
                                  ![i].docLang = fetches[i].langCode]
    /\ UNCHANGED <<now, rlVars, reqVars, sessVars, authVars, logoutVars, autoVars, imgVars, creq, form, logs, seen>>

\* a 2xx body that response.json() rejects
UnparsableBody == "unparsable"

\* client.js:28-30 and :35-38: a non-2xx answer or a failed fetch is thrown
FetchUpstreamFails(i) ==
    /\ fetches[i].pc = "fetching"
    /\ LET k == fetches[i].key
       IN  ~(dataCache[k].has /\ now - dataCache[k].storedAt < CacheTTL)
    /\ UNCHANGED apiCache
    /\ fetches' = [fetches EXCEPT ![i].pc = "done", ![i].upstream = TRUE,
                                  ![i].result = "error",
                                  ![i].kept = (apiCache' = apiCache)]
    /\ UNCHANGED <<now, rlVars, reqVars, sessVars, authVars, dataCache, logoutVars, autoVars, imgVars, creq, form, logs, seen>>

\* client.js:22-38: the upstream answers 2xx with a body that is not JSON;
\* fetch keeps the response for revalidate seconds, response.json() of
\* client.js:32 throws before the Map is written
FetchUpstreamUnparsable(i) ==
    /\ fetches[i].pc = "fetching"
    /\ LET k == fetches[i].key
       IN  /\ ~(dataCache[k].has /\ now - dataCache[k].storedAt < CacheTTL)
           /\ dataCache' = [dataCache EXCEPT ![k] =
                  [has |-> TRUE, value |-> UnparsableBody, storedAt |-> now,
                   lang |-> fetches[i].langCode]]
    /\ UNCHANGED apiCache
    /\ fetches' = [fetches EXCEPT ![i].pc = "done", ![i].upstream = TRUE,
                                  ![i].result = "error",
                                  ![i].kept = (apiCache' = apiCache)]
    /\ UNCHANGED <<now, rlVars, reqVars, sessVars, authVars, logoutVars, autoVars, imgVars, creq, form, logs, seen>>

\* client.js:22-34: fetch answers from the response it kept, then the Map
\* is written as for any 2xx answer
FetchFromDataCache(i) ==
    /\ fetches[i].pc = "fetching"
    /\ LET k == fetches[i].key
       IN  /\ dataCache[k].has /\ now - dataCache[k].storedAt < CacheTTL
           /\ IF dataCache[k].value = UnparsableBody
              THEN /\ UNCHANGED apiCache
                   /\ fetches' = [fetches EXCEPT ![i].pc = "done",
                                      ![i].result = "error",
                                      ![i].kept = (apiCache' = apiCache)]
              ELSE /\ apiCache' = [apiCache EXCEPT ![k] =
                          [has |-> TRUE, value |-> dataCache[k].value,
                           storedAt |-> dataCache[k].storedAt,
                           lang |-> dataCache[k].lang]]
                   /\ fetches' = [fetches EXCEPT ![i].pc = "done",
                                      ![i].result = "data",
                                      ![i].value = dataCache[k].value,
                                      ![i].docLang = dataCache[k].lang]
    /\ UNCHANGED <<now, rlVars, reqVars, sessVars, authVars, dataCache, logoutVars, autoVars, imgVars, creq, form, logs, seen>>

CacheFetchStart ==
    \E i \in 1..MaxFetch, u \in Urls, locale \in Locales :
        FetchStart(i, u, LangCode(locale))
CacheUpstreamOk == \E i \in 1..MaxFetch : FetchUpstreamOk(i)
CacheUpstreamFails == \E i \in 1..MaxFetch : FetchUpstreamFails(i)
CacheUpstreamUnparsable == \E i \in 1..MaxFetch : FetchUpstreamUnparsable(i)
CacheFromDataCache == \E i \in 1..MaxFetch : FetchFromDataCache(i)
CacheTick == Tick /\ UNCHANGED <<rlVars, reqVars, sessVars, authVars, cacheVars, logoutVars, autoVars, imgVars, creq, form, logs, seen>>

\* ------------------------------------------------------------ cachedRequest: claims

\* C6 (as claimed): a fetch of a key made within the TTL of its stored value
\* makes no upstream call and returns the stored value; a fetch of the key
\* made after the TTL has expired makes an upstream call.
C6_CacheRoundTrip ==
    \A i \in 1..MaxFetch :
        (fetches[i].pc = "done" /\ fetches[i].hadEntry)
        => IF fetches[i].entryAge < CacheTTL
           THEN /\ ~fetches[i].upstream
                /\ fetches[i].value = fetches[i].entryValue
           ELSE fetches[i].upstream

\* C16 (as claimed): a call that finds an entry older than the TTL goes
\* upstream, and fails when the upstream call fails: it never returns the
\* stored value as if it were fresh.
C16_NoStaleOnFailure ==
    \A i \in 1..MaxFetch :
        (fetches[i].pc = "done" /\ fetches[i].hadEntry
         /\ fetches[i].entryAge >= CacheTTL)
        => /\ fetches[i].upstream
           /\ ~(fetches[i].result = "data" /\ fetches[i].value = fetches[i].entryValue
                /\ ~fetches[i].upstream)

\* C20: the cache key of a request contains the langCode header it sends,
\* so requests for the same url in different languages have different keys,
\* and the document a call returns, from the upstream or from a cache, is in
\* the language the call asked for.
C20_LocaleInCacheKey ==
    /\ \A u \in Urls, l1, l2 \in LangCodes :
          l1 # l2 => CacheKey(u, l1) # CacheKey(u, l2)
    /\ \A i \in 1..MaxFetch :
          (fetches[i].pc = "done" /\ fetches[i].result = "data")
          => fetches[i].docLang = fetches[i].langCode
    /\ \A k \in CacheKeys :
          apiCache[k].has => k = CacheKey("getBasicData?categoryId=5", apiCache[k].lang)

\* the Arabic document is stored, then the English one is asked for: it is
\* fetched from the upstream and stored under a key of its own
C20_Witness ==
    /\ fetches[1].pc = "done" /\ fetches[1].langCode = "1" /\ fetches[1].upstream
    /\ fetches[2].pc = "done" /\ fetches[2].langCode = "2" /\ fetches[2].upstream
    /\ fetches[2].docLang = "2"
    /\ apiCache[CacheKey("getBasicData?categoryId=5", "1")].has
    /\ apiCache[CacheKey("getBasicData?categoryId=5", "2")].has

\* C31 (as claimed): a fetch that fails leaves the Map as it was, and a
\* later fetch of its key that finds no entry calls the upstream again.
C31_FailedFetchLeavesCache ==
    \A i \in 1..MaxFetch :
        /\ (fetches[i].pc = "done" /\ fetches[i].result = "error")
           => fetches[i].kept
        /\ (fetches[i].pc = "done" /\ fetches[i].prevFailed /\ ~fetches[i].hadEntry)
           => fetches[i].upstream

\* C32 (as claimed): the revalidate time and the tags an accessor passes are
\* the ones given to the fetch that populates its entry: 3600 s and
\* category-{id} for category filters through cachedRequest, and the
\* CACHE_CONFIG time of each accessor through serverGet.
C32_AccessorTTLApplied ==
    /\ \A i \in 1..MaxFetch :
          (fetches[i].pc = "done" /\ fetches[i].upstream /\ fetches[i].result = "data")
          => fetches[i].applied = fetches[i].asked
    /\ \A c \in {"home", "product", "productBundle", "advancedSearch"} :
          ServerGetNext("u", CACHE_CONFIG[c]).revalidate = <<CACHE_CONFIG[c]>>

\* ------------------------------------------------------------ AuthUtils.logout
\* auth.utils.js:81-89 authKeys, in the order forEach removes them
AuthKeys ==
    <<"next-auth.session-token", "next-auth.csrf-token", "next-auth.callback-url",
      "profile-completed", "user-preferences", "cart-items", "recent-searches">>

\* auth.utils.js:198 and client.js:43: the other keys the code reads
OtherKeys == {"current-user", "authToken"}

StorageKeys == {AuthKeys[i] : i \in 1..Len(AuthKeys)} \cup OtherKeys

\* auth.utils.js:91-93 "authKeys.forEach(key => localStorage.removeItem(key))"
RECURSIVE RemoveKeys(_, _, _)
RemoveKeys(s, keys, i) ==
    IF i > Len(keys) THEN s ELSE RemoveKeys(s \ {keys[i]}, keys, i + 1)

\* auth.utils.js:76-114 clearClientStorage, its effect on localStorage; it
\* catches whatever it throws
ClearClientStorageMutant(s) == RemoveKeys(s, SubSeq(AuthKeys, 1, 5), 1)
ClearClientStorage(s) == RemoveKeys(s, AuthKeys, 1)

IdleLogout ==
    [pc |-> "idle", clearStorage |-> TRUE, redirect |-> TRUE,
     callbackUrl |-> "/signin", had |-> {}, clears |-> 0,
     invalidate |-> "none", location |-> "page"]

\* the application stores a key (the writers are outside these sources);
\* it does so between logouts
StorageSet(k) ==
    /\ lo.pc = "idle"
    /\ k \notin storage
    /\ storage' = storage \cup {k}
    /\ UNCHANGED <<now, rlVars, reqVars, sessVars, authVars, cacheVars, lo, autoVars, imgVars, creq, form, logs, seen>>

\* auth.utils.js:34-53: logout(options) up to "await signOut(...)"
LogoutBegin(clearStorage, redirect, callbackUrl) ==
    /\ lo.pc = "idle"
    /\ lo' = [IdleLogout EXCEPT !.pc = "signOut",
                                !.clearStorage = clearStorage,
                                !.redirect = redirect,
                                !.callbackUrl = callbackUrl,
                                !.had = storage,
                                !.clears = IF clearStorage THEN 1 ELSE 0]
    /\ storage' = IF clearStorage THEN ClearClientStorage(storage) ELSE storage

LogoutStart(clearStorage, redirect, callbackUrl) ==
    /\ LogoutBegin(clearStorage, redirect, callbackUrl)
    /\ UNCHANGED <<now, rlVars, reqVars, sessVars, authVars, cacheVars, autoVars, imgVars, creq, form, logs, seen>>

\* route.js:165-169 and :227-238: what became of the upstream invalidation
\* call made by the signOut event ("skipped": the token had no accessToken);
\* invalidateTokenOnAPI catches a failed fetch
Invalidations == {"ok", "failed", "timeout", "skipped"}

\* auth.utils.js:50-55: signOut resolved; with redirect it has navigated
LogoutSignOutResolves ==
    /\ lo.pc = "signOut"
    /\ \E i \in Invalidations :
        lo' = [lo EXCEPT !.pc = "resolved", !.invalidate = i,
                         !.location = IF lo.redirect THEN lo.callbackUrl
                                      ELSE @]
    /\ UNCHANGED <<now, rlVars, reqVars, sessVars, authVars, cacheVars, storage, autoVars, imgVars, creq, form, logs, seen>>

\* auth.utils.js:57-70: signOut rejected (the request to the signout route
\* failed or timed out): the catch block clears again, redirects and rethrows
LogoutSignOutRejects ==
    /\ lo.pc = "signOut"
    /\ \E i \in {"failed", "timeout"} :
        lo' = [lo EXCEPT !.pc = "rejected", !.invalidate = i,
                         !.clears = IF lo.clearStorage THEN @ + 1 ELSE @,
                         !.location = IF lo.redirect THEN lo.callbackUrl
                                      ELSE @]
    /\ storage' = IF lo.clearStorage THEN ClearClientStorage(storage) ELSE storage
    /\ UNCHANGED <<now, rlVars, reqVars, sessVars, authVars, cacheVars, autoVars, imgVars, creq, form, logs, seen>>

\* the caller has seen the outcome; the page is in use again
LogoutDone ==
    /\ lo.pc \in {"resolved", "rejected"}
    /\ lo' = IdleLogout
    /\ UNCHANGED <<now, rlVars, reqVars, sessVars, authVars, cacheVars, storage, autoVars, imgVars, creq, form, logs, seen>>

LogoutStorageSet == \E k \in StorageKeys : StorageSet(k)

LogoutCall ==
    \E c \in BOOLEAN, r \in BOOLEAN, u \in {"/signin", "/signin?error=SessionTimeout"} :
        LogoutStart(c, r, u)

\* ------------------------------------------------------------ AuthUtils.logout: claims

\* C11: once a logout called with clearStorage left at its default has
\* settled, resolved or rejected, whatever became of the signOut call and of
\* the upstream invalidation, none of the seven enumerated keys is in
\* localStorage.
C11_LogoutClearsKeys ==
    (lo.pc \in {"resolved", "rejected"} /\ lo.clearStorage)
    => \A i \in 1..Len(AuthKeys) : AuthKeys[i] \notin storage

\* all seven keys were stored, the signOut call timed out, logout rejected
C11_Witness ==
    /\ lo.pc = "rejected" /\ lo.clearStorage /\ lo.redirect
    /\ lo.invalidate = "timeout"
    /\ \A i \in 1..Len(AuthKeys) : AuthKeys[i] \in lo.had
    /\ \A i \in 1..Len(AuthKeys) : AuthKeys[i] \notin storage

\* auth.utils.js:194-204 getCurrentUser: the parsed 'current-user' item, or
\* null when the item is absent
GetCurrentUser(s) == IF "current-user" \in s THEN "user" ELSE "null"

\* client.js:43-50 clientRequest: the Authorization header is sent when
\* localStorage holds 'authToken'
Authorization(s) == IF "authToken" \in s THEN "Bearer" ELSE "none"

\* C39 (as claimed): once a logout that clears storage has settled,
\* 'current-user' and 'authToken' are absent from localStorage, so
\* getCurrentUser returns null and a client request carries no bearer token.
C39_LogoutClearsIdentity ==
    (lo.pc \in {"resolved", "rejected"} /\ lo.clearStorage)
    => /\ OtherKeys \cap storage = {}
       /\ GetCurrentUser(storage) = "null"
       /\ Authorization(storage) = "none"

\* ------------------------------------------------------------ setupAutoLogout
\* part_007:18 "30 * 60 * 1000" (the default of auth.utils.js:210 too), in ticks
IdleTimeout == 2

\* auth.utils.js:226 the events that count as activity
ActivityEvents == {"mousedown", "mousemove", "keypress", "scroll", "touchstart"}

NoTimer == 0 - 1

\* listening: the listeners are attached; timer: the time the pending
\* timeout is due, or NoTimer; idleSince: the time of setup or of the last
\* activity event heard; fires: one record per run of the timeout callback
NoAuto == [listening |-> FALSE, timer |-> NoTimer, idleSince |-> 0, fires |-> <<>>]

\* auth.utils.js:215-223 resetTimeout: clearTimeout, then setTimeout(T)
ResetTimeout(a, t) == [a EXCEPT !.timer = t + IdleTimeout, !.idleSince = t]

\* auth.utils.js:235-240, the cleanup function returned
CleanupAutoLogoutMutant(a) == [a EXCEPT !.listening = FALSE]
CleanupAutoLogout(a) == [a EXCEPT !.listening = FALSE, !.timer = NoTimer]

\* auth.utils.js:210-232 setupAutoLogout(timeoutMs), as the Header effect
\* calls it when there is a session (part_007:16-21)
AutoSetup ==
    /\ ~auto.listening /\ auto.timer = NoTimer
    /\ now + IdleTimeout <= MaxTime
    /\ auto' = [ResetTimeout(auto, now) EXCEPT !.listening = TRUE]
    /\ UNCHANGED <<now, rlVars, reqVars, sessVars, authVars, cacheVars, logoutVars, imgVars, creq, form, logs, seen>>

\* an activity event reaches document; the listener, if attached, is resetTimeout
AutoActivity(e) ==
    /\ auto.listening
    /\ auto.idleSince # now
    /\ auto' = ResetTimeout(auto, now)
    /\ UNCHANGED <<now, rlVars, reqVars, sessVars, authVars, cacheVars, logoutVars, imgVars, creq, form, logs, seen>>

\* auth.utils.js:217-222: the timeout callback runs and calls
\* AuthUtils.logout({callbackUrl: '/signin?error=SessionTimeout'}); a logout
\* already in progress is left to run
AutoFire ==
    /\ auto.timer # NoTimer /\ now >= auto.timer
    /\ auto' = [auto EXCEPT !.timer = NoTimer,
                  !.fires = Append(@, [at |-> now, idleSince |-> auto.idleSince,
                                       listening |-> auto.listening])]
    /\ IF lo.pc = "idle"
       THEN LogoutBegin(TRUE, TRUE, "/signin?error=SessionTimeout")
       ELSE UNCHANGED logoutVars
    /\ UNCHANGED <<now, rlVars, reqVars, sessVars, authVars, cacheVars, imgVars, creq, form, logs, seen>>

\* the effect's cleanup runs (the session changed or the Header unmounted)
AutoCleanup ==
    /\ auto.listening
    /\ auto' = CleanupAutoLogout(auto)
    /\ UNCHANGED <<now, rlVars, reqVars, sessVars, authVars, cacheVars, logoutVars, imgVars, creq, form, logs, seen>>

\* time passes; a timeout that is due runs before the clock moves on
AutoTick ==
    /\ ~(auto.timer # NoTimer /\ now >= auto.timer)
    /\ Tick
    /\ UNCHANGED <<rlVars, reqVars, sessVars, authVars, cacheVars, logoutVars, autoVars, imgVars, creq, form, logs, seen>>

AutoAnyActivity == \E e \in ActivityEvents : AutoActivity(e)

\* ------------------------------------------------------------ setupAutoLogout: claims

\* C21: the timeout callback runs only IdleTimeout after the setup or the
\* last activity event, with the listeners still attached; while the
\* listeners are attached and no callback has run since the last event a
\* timeout is pending for exactly that time; and once the cleanup function
\* has run no timeout is pending.
C21_AutoLogoutTimer ==
    /\ \A i \in 1..Len(auto.fires) :
          /\ auto.fires[i].at = auto.fires[i].idleSince + IdleTimeout
          /\ auto.fires[i].listening
    /\ auto.timer # NoTimer
       => /\ auto.timer = auto.idleSince + IdleTimeout
          /\ now <= auto.timer
          /\ auto.listening
    /\ (auto.listening /\ auto.timer = NoTimer)
       => /\ Len(auto.fires) >= 1
          /\ auto.fires[Len(auto.fires)].idleSince = auto.idleSince

\* an event restarted the wait, the callback ran a full IdleTimeout after it
\* and called logout, then the cleanup ran
C21_Witness ==
    /\ Len(auto.fires) = 1
    /\ auto.fires[1].idleSince > 0
    /\ auto.fires[1].at = auto.fires[1].idleSince + IdleTimeout
    /\ lo.pc = "signOut" /\ lo.callbackUrl = "/signin?error=SessionTimeout"
    /\ ~auto.listening

\* ------------------------------------------------------------ image proxy
\* A url is the sequence of its parts: scheme, then the parts of the
\* authority, then "/" and the path. NoUrl is a request without the
\* parameter (searchParams.get returns null).
NoUrl == <<"null">>
ImageUrls ==
    { NoUrl,
      <<>>,
      <<"https://", "api.lajolie-eg.com", "/", "a.png">>,
      <<"https://", "api.lajolie-eg.com", "/", "doc.html">>,
      <<"https://", "api.lajolie-eg.com">>,
      <<"http://", "api.lajolie-eg.com", "/", "a.png">>,
      <<"https://", "api.lajolie-eg.com", ".evil.com", "/", "a.png">>,
      <<"https://", "api.lajolie-eg.com", "@", "evil.com", "/", "a.png">>,
      <<"https://", "evil.com", "/", "https://", "api.lajolie-eg.com", "/", "a.png">> }

\* route.js:13 the prefix tested
AllowedPrefix == <<"https://", "api.lajolie-eg.com", "/">>

\* String.prototype.startsWith
StartsWithMutant(str, prefix) ==
    Len(str) >= 2 /\ SubSeq(str, 1, 2) = SubSeq(prefix, 1, 2)
StartsWith(str, prefix) ==
    Len(str) >= Len(prefix) /\ SubSeq(str, 1, Len(prefix)) = prefix

\* the origin fetch connects to: the scheme and the host, which is what the
\* authority holds after its last "@"
RECURSIVE AuthorityEnd(_, _)
AuthorityEnd(url, i) ==
    IF i > Len(url) \/ url[i] = "/" THEN i - 1 ELSE AuthorityEnd(url, i + 1)

RECURSIVE HostStart(_, _, _)
HostStart(url, i, last) ==
    IF i < 2 THEN 2
    ELSE IF url[i] = "@" THEN i + 1
    ELSE HostStart(url, i - 1, last)

Origin(url) ==
    IF url = NoUrl \/ Len(url) < 2 THEN <<>>
    ELSE LET e == AuthorityEnd(url, 2)
         IN  <<url[1]>> \o SubSeq(url, HostStart(url, e, e), e)

AllowedOrigin == <<"https://", "api.lajolie-eg.com">>

\* content types, split after the "/"; <<>> is a response without the header
ContentTypes == {<<"image/", "png">>, <<"image/", "webp">>, <<"text/", "html">>, <<"Image/", "PNG">>, <<>>}

\* what the upstream fetch settles with
ImgOutcomes ==
    {[k |-> "ok", status |-> 200, contentType |-> c] : c \in ContentTypes}
    \cup {[k |-> "status", status |-> st, contentType |-> <<>>] : st \in {403, 404, 500}}
    \cup {[k |-> "throws", status |-> 0, contentType |-> <<>>]}

NoCacheControl == "none"
Immutable == "public, max-age=86400, immutable"

IdleImg ==
    [pc |-> "idle", url |-> NoUrl, status |-> 0, kind |-> "none",
     contentType |-> <<>>, cacheControl |-> NoCacheControl, fetched |-> FALSE]

\* route.js:3-17: GET up to "await fetch(imageUrl)"
ImgGet(url) ==
    /\ img.pc \in {"idle", "done"}
    /\ LET r == [IdleImg EXCEPT !.url = url]
       IN  IF url = NoUrl \/ url = <<>>
           THEN /\ img' = [r EXCEPT !.pc = "done", !.status = 400, !.kind = "json"]
                /\ UNCHANGED imgLog
           ELSE IF ~StartsWith(url, AllowedPrefix)
           THEN /\ img' = [r EXCEPT !.pc = "done", !.status = 403, !.kind = "json"]
                /\ UNCHANGED imgLog
           ELSE /\ Len(imgLog) < MaxImg
                /\ img' = [r EXCEPT !.pc = "fetch", !.fetched = TRUE]
                /\ imgLog' = Append(imgLog, url)
    /\ UNCHANGED <<now, rlVars, reqVars, sessVars, authVars, cacheVars, logoutVars, autoVars, creq, form, logs, seen>>

\* route.js:17-39: the upstream fetch has settled
ImgSettles ==
    /\ img.pc = "fetch"
    /\ \E o \in ImgOutcomes :
        img' = IF o.k = "throws"
               THEN [img EXCEPT !.pc = "done", !.status = 500, !.kind = "json"]
               ELSE IF o.k = "status"
               THEN [img EXCEPT !.pc = "done", !.status = o.status, !.kind = "json"]
               ELSE IF ~StartsWith(o.contentType, <<"image/">>)
               THEN [img EXCEPT !.pc = "done", !.status = 400, !.kind = "json",
                                !.contentType = o.contentType]
               ELSE [img EXCEPT !.pc = "done", !.status = 200, !.kind = "image",
                                !.contentType = o.contentType,
                                !.cacheControl = Immutable]
    /\ UNCHANGED <<now, rlVars, reqVars, sessVars, authVars, cacheVars, logoutVars, autoVars, imgLog, creq, form, logs, seen>>

ImgRequest == \E url \in ImageUrls : ImgGet(url)

\* ------------------------------------------------------------ image proxy: claims

StepOutcomes == {"success", "denied", "failed", "threw"}
UserIds == {"u1", "u2"}

NoLast == [kind |-> "none", before |-> 0, after |-> 0]

\* api.config.js:44-55: the useState values at mount. pending holds the
\* submit handlers that wait for their action, each with the currentStep of
\* the render it was created in.
NewForm ==
    [currentStep |-> 0, loading |-> FALSE, error |-> "null",
     showPassword |-> FALSE,
     userId |-> "", token |-> "",
     pending |-> <<>>, pushed |-> FALSE, last |-> NoLast]

\* api.config.js:76, :88, :99, :111 "if (loading) return"
BusyMutant(loading) == FALSE
Busy(loading) == loading

\* api.config.js:57-61 handleNext, created in a render whose currentStep is
\* captured; setCurrentStep(prev => prev + 1) works on the current value
HandleNext(captured, prev) == IF captured < 3 THEN prev + 1 ELSE prev

\* part_000:116 and :152: signup and verifyOTP await checkRateLimit before
\* the upstream call; setPassword and setPersonalInfo (part_000:187, :217)
\* call the upstream at once
FirstStage(step) == IF step \in {0, 1} THEN "rateLimit" ELSE "upstream"

\* api.config.js:74-112: the submit handler of the form the current step
\* shows, up to its await; the action sets loading (part_000:111)
FormSubmit ==
    /\ ~form.pushed
    /\ Len(form.pending) < MaxPending
    /\ form' = IF Busy(form.loading)
               THEN [form EXCEPT !.last = [kind |-> "rejected",
                                           before |-> form.currentStep,
                                           after |-> form.currentStep]]
               ELSE [form EXCEPT !.loading = TRUE, !.error = "null",
                                 !.pending =
                                     Append(@, [step |-> form.currentStep,
                                                stage |-> FirstStage(form.currentStep)])]
    /\ UNCHANGED <<now, rlVars, reqVars, sessVars, authVars, cacheVars, logoutVars, autoVars, imgVars, creq, logs, seen>>

\* api.config.js:78-82, :90-93, :101-105, :120-131: the action of the
\* oldest pending handler has resolved (its finally clears loading,
\* part_000:139) and the handler continues
FormSettles(outcome, id) ==
    /\ Len(form.pending) >= 1
    /\ (outcome = "denied") = (Head(form.pending).stage = "rateLimit")
    /\ LET h == Head(form.pending)
           base == [form EXCEPT !.loading = FALSE, !.pending = Tail(@)]
           next == IF outcome = "success" /\ h.step < 3
                   THEN HandleNext(h.step, form.currentStep)
                   ELSE form.currentStep
           kind == IF outcome = "success" THEN "success" ELSE "failure"
       IN  form' = [base EXCEPT
                      !.currentStep = next,
                      !.error = IF outcome = "success" THEN @ ELSE outcome,
                      !.userId = IF outcome = "success" /\ h.step = 0 THEN id ELSE @,
                      !.token = IF outcome = "success" /\ h.step = 2 THEN id ELSE @,
                      !.pushed = IF outcome = "success" /\ h.step = 3 THEN TRUE ELSE @,
                      !.last = [kind |-> kind, before |-> form.currentStep,
                                after |-> next]]
    /\ UNCHANGED <<now, rlVars, reqVars, sessVars, authVars, cacheVars, logoutVars, autoVars, imgVars, creq, logs, seen>>

\* part_000:116-120: checkRateLimit allowed the oldest pending action
FormAllowed ==
    /\ Len(form.pending) >= 1
    /\ Head(form.pending).stage = "rateLimit"
    /\ form' = [form EXCEPT !.pending[1].stage = "upstream"]
    /\ UNCHANGED <<now, rlVars, reqVars, sessVars, authVars, cacheVars, logoutVars, autoVars, imgVars, creq, logs, seen>>

\* api.config.js:63-65 togglePasswordVisibility, on the password step
FormTogglePassword ==
    /\ ~form.pushed
    /\ form.currentStep = 2
    /\ form' = [form EXCEPT !.showPassword = ~@]
    /\ UNCHANGED <<now, rlVars, reqVars, sessVars, authVars, cacheVars, logoutVars, autoVars, imgVars, creq, logs, seen>>

\* api.config.js:67-71 handleInputChange: typing clears the hook's error
FormInput ==
    /\ ~form.pushed
    /\ form.error # "null"
    /\ form' = [form EXCEPT !.error = "null"]
    /\ UNCHANGED <<now, rlVars, reqVars, sessVars, authVars, cacheVars, logoutVars, autoVars, imgVars, creq, logs, seen>>

FormSettle == \E outcome \in StepOutcomes, id \in UserIds : FormSettles(outcome, id)

\* ------------------------------------------------------------ SignupForm: claims

\* the step changed in the last step of the behaviour only by growing by one
\* after a success
StepMoves ==
    \/ form'.currentStep = form.currentStep
    \/ /\ form'.currentStep = form.currentStep + 1
       /\ form'.last.kind = "success"

\* C33: the step starts at 0, stays within 0..3, changes only by growing by
\* exactly 1 when an action returned success (which it does at the steps
\* before the last), and is unchanged by a failed or rejected submit.
C33_StepForward ==
    /\ form.currentStep = 0
    /\ [](/\ form.currentStep \in 0..3
          /\ form.last.kind \in {"failure", "rejected"}
             => form.last.after = form.last.before
          /\ (form.last.kind = "success" /\ form.last.before < 3)
             => form.last.after = form.last.before + 1)
    /\ [][StepMoves]_vars

\* the third success brought the form to its last step after a failure
C33_Witness ==
    /\ form.currentStep = 3 /\ form.last.kind = "success"
    /\ form.last.before = 2 /\ form.userId = "u1" /\ form.token = "u2"

\* ------------------------------------------------------------ SecureLogger
\* A logged object is a sequence of fields [key, leaf, sub]: the key as the
\* sequence of its words, a string value in leaf or a nested object in sub.
Secret == "s3cret"
Redacted == "[REDACTED]"

Leaf(key, value) == [key |-> key, leaf |-> value, sub |-> <<>>]
Nested(key, fields) == [key |-> key, leaf |-> "", sub |-> fields]

\* part_003:26 sensitiveKeys
SensitiveKeys ==
    {"password", "token", "accessToken", "refreshToken", "secret", "key",
     "authorization"}

\* String.prototype.toLowerCase on the words the keys are made of
ToLowerCase(word) ==
    IF word = "Authorization" THEN "authorization"
    ELSE IF word = "Token" THEN "token"
    ELSE word

\* part_003:29-30: lowerKey.includes(sensitive) for some sensitive key; a
\* sensitive key made of capitals (accessToken) never matches a lower-cased
\* key, its lower-case part (token) does
IsSensitive(key) ==
    \E i \in 1..Len(key) : ToLowerCase(key[i]) \in SensitiveKeys

\* part_003:11-39 sanitizeLogData for an object: a copy in which the
\* sensitive keys of the object itself are replaced
SanitizeLogData(data) ==
    [i \in 1..Len(data) |->
        IF IsSensitive(data[i].key) THEN Leaf(data[i].key, Redacted)
        ELSE data[i]]

\* part_003:42-53 formatMessage
FormatMessage(level, data) ==
    [level |-> level, data |-> SanitizeLogData(data)]

\* part_003:76-88 error(message, error, data)
LoggerError(message, data) ==
    FormatMessage("error",
        <<Nested(<<"error">>, <<Leaf(<<"message">>, message),
                                Leaf(<<"name">>, "Error")>>)>> \o data)

\* part_001:4-19: the config of the first serverRequest, written by
\* console.log as it is
RequestConfig(headers) ==
    [level |-> "console",
     data |-> <<Nested(<<"headers">>,
                  <<Leaf(<<"Content-Type">>, "application/json")>> \o headers)>>]

\* objects the callers log
LogData ==
    { <<>>,
      <<Leaf(<<"mobile">>, "0100")>>,
      <<Leaf(<<"password">>, Secret)>>,
      <<Leaf(<<"access", "Token">>, Secret), Leaf(<<"mobile">>, "0100")>>,
      <<Nested(<<"user">>, <<Leaf(<<"password">>, Secret)>>)>>,
      <<Nested(<<"headers">>, <<Leaf(<<"Authorization">>, Secret)>>)>> }

RequestHeaders == { <<>>, <<Leaf(<<"Authorization">>, Secret)>>, <<Leaf(<<"langCode">>, "1")>> }

\* part_003:62-65 info(message, data)
LogInfo(data) ==
    /\ Len(logs) < MaxLogs
    /\ logs' = Append(logs, FormatMessage("info", data))
    /\ UNCHANGED <<now, rlVars, reqVars, sessVars, authVars, cacheVars, logoutVars, autoVars, imgVars, creq, form, seen>>

\* part_003:76-88 error(message, error, data)
LogError(data) ==
    /\ Len(logs) < MaxLogs
    /\ logs' = Append(logs, LoggerError("failed", data))
    /\ UNCHANGED <<now, rlVars, reqVars, sessVars, authVars, cacheVars, logoutVars, autoVars, imgVars, creq, form, seen>>

\* part_001:18 console.log('Config:', JSON.stringify(config, null, 2))
LogConfig(headers) ==
    /\ Len(logs) < MaxLogs
    /\ logs' = Append(logs, RequestConfig(headers))
    /\ UNCHANGED <<now, rlVars, reqVars, sessVars, authVars, cacheVars, logoutVars, autoVars, imgVars, creq, form, seen>>

LoggerInfo == \E data \in LogData : LogInfo(data)
LoggerErrorCall == \E data \in LogData : LogError(data)
ServerRequestLog == \E headers \in RequestHeaders : LogConfig(headers)

\* ------------------------------------------------------------ SecureLogger: claims

\* whether an object holds the secret in cleartext at some depth
RECURSIVE HasSecret(_)
HasSecret(fields) ==
    \E i \in 1..Len(fields) :
        fields[i].leaf = Secret \/ HasSecret(fields[i].sub)

\* C34 (as claimed): no record written to the console holds a secret in
\* cleartext, at any nesting depth of the logged data.
C34_NoSecretLogged ==
    \A i \in 1..Len(logs) : ~HasSecret(logs[i].data)

Init ==
    /\ now = 0
    /\ attempts = <<>>
    /\ rlResult = NoResult
    /\ run = [i \in Ids |-> NoRun]
    /\ req = IdleReq
    /\ fetchCache = [u \in ProductIds |-> NoCached]
    /\ jwt = NoToken
    /\ sread = IdleRead
    /\ hook = InitHook
    /\ inv = [i \in 1..MaxInv |-> NoInv]
    /\ apiCache = [k \in CacheKeys |-> NoEntry]
    /\ dataCache = [k \in CacheKeys |-> NoEntry]
    /\ fetches = [i \in 1..MaxFetch |-> NoFetch]
    /\ storage = {}
    /\ lo = IdleLogout
    /\ auto = NoAuto
    /\ img = IdleImg
    /\ imgLog = <<>>
    /\ creq = IdleClient
    /\ form = NewForm
    /\ logs = <<>>
    /\ seen = NoneSeen

NextRL == RLCheck \/ RLCheckRateLimit \/ RLGetStatus \/ Sweep \/ RLTick

SpecRL == Init /\ [][NextRL]_vars

\* the setInterval timer keeps firing
NextSweep == RLCheck \/ Sweep \/ RLTick

SpecSweep == Init /\ [][NextSweep]_vars /\ WF_vars(Sweep)

NextEvict == EvictCheck \/ Sweep \/ RLTick

NextLock == LockCheck \/ Sweep \/ RLTick

SpecLock == Init /\ [][NextLock]_vars

SpecEvict == Init /\ [][NextEvict]_vars

NextReq == ReqStart \/ ReqRespond \/ ReqCacheHit \/ ReqTimeout \/ ReqBackoffDone \/ ReqTick

SpecReq == Init /\ [][NextReq]_vars

NextSess == SessSignIn \/ ReadStart \/ ReadRefreshed \/ SessTick

SpecSess == Init /\ [][NextSess]_vars

NextAuth ==
    \/ AuthInvoke \/ AuthAfterRateLimit \/ AuthUpstreamSettles
    \/ AuthSignInSettles \/ CancelRequest \/ Render

SpecAuth == Init /\ [][NextAuth]_vars

NextCache ==
    \/ CacheFetchStart \/ CacheUpstreamOk \/ CacheUpstreamFails
    \/ CacheUpstreamUnparsable \/ CacheFromDataCache \/ CacheTick

SpecCache == Init /\ [][NextCache]_vars

NextLogout ==
    \/ LogoutStorageSet \/ LogoutCall \/ LogoutSignOutResolves
    \/ LogoutSignOutRejects \/ LogoutDone

SpecLogout == Init /\ [][NextLogout]_vars

NextAuto ==
    \/ AutoSetup \/ AutoAnyActivity \/ AutoFire \/ AutoCleanup \/ AutoTick
    \/ LogoutSignOutResolves \/ LogoutSignOutRejects \/ LogoutDone

SpecAuto == Init /\ [][NextAuto]_vars

NextImg == ImgRequest \/ ImgSettles

SpecImg == Init /\ [][NextImg]_vars

NextClient == ClientStart \/ ClientRespond \/ ClientTimeout \/ ClientBackoffDone

SpecClient == Init /\ [][NextClient]_vars

NextForm ==
    FormSubmit \/ FormAllowed \/ FormSettle \/ FormInput \/ FormTogglePassword

SpecForm == Init /\ [][NextForm]_vars

NextLog == LoggerInfo \/ LoggerErrorCall \/ ServerRequestLog

SpecLog == Init /\ [][NextLog]_vars

Next ==
    \/ NextRL \/ NextReq \/ NextSess \/ NextAuth \/ NextCache \/ NextLogout
    \/ NextAuto \/ NextImg \/ NextClient \/ NextForm \/ NextLog \/ NextLock

Spec == Init /\ [][Next]_vars

====
